---- MODULE Spec2Model ----
(***************************************************************************)
(* A model of burncloud-download's task orchestration.                     *)
(*                                                                         *)
(* TaskQueueManager (src/src/queue/manager.rs) keeps three collections,    *)
(* each behind its own lock: all_tasks (the registry), active_tasks (the   *)
(* bounded active set) and queued_tasks (the FIFO waiting queue).  Every   *)
(* handler is written here as a composition of the single lock-protected   *)
(* steps it performs, in the order the code performs them.                 *)
(*                                                                         *)
(*   Spec      one call at a time: every action is a whole handler.        *)
(*   SpecConc  calls of several tasks interleaved at the lock boundaries.  *)
(*   SpecEvents  pause_task and resume_task of concurrent callers, with    *)
(*             the notifications as steps.                                 *)
(*   SpecDup   add_download_with_policy, one call at a time, on either     *)
(*             TaskQueueManager or PersistentAria2Manager                  *)
(*             (src/src/manager/persistent_aria2.rs), the repository       *)
(*             accepting every save.                                       *)
(*   SpecPersistentConc  add_download_with_policy of PersistentAria2Manager*)
(*             by concurrent callers, interleaved at its awaits.           *)
(*   SpecRecovery  PersistentAria2Manager over process exits and restarts, *)
(*             with saves that can fail; SpecRecoveryFair adds the ticker. *)
(*   SpecShutdown  the persistence poller and shutdown(), call by call;    *)
(*             SpecShutdownFair adds the runtime's scheduling.             *)
(*   SpecUrl   normalize_url (src/src/utils/url_normalization.rs), applied *)
(*             to a url and to what it returned.                           *)
(*   SpecProgress  the progress maps of TaskQueueManager and of            *)
(*             BasicDownloadManager (src/src/manager/basic.rs).            *)
(*   SpecLocks  the lock acquisitions of TaskQueueManager's operations,    *)
(*             with tokio's first-come-first-served locks and handlers     *)
(*             that call back; SpecLocksFair adds the runtime's scheduling.*)
(***************************************************************************)
EXTENDS Integers, Sequences, FiniteSets, TLC

\* src/src/queue/manager.rs:12
MAX_CONCURRENT_DOWNLOADS == 3

\* Bounds of the model.
MaxTasks == 5
MaxQueue == 3
MaxHandlers == 1
NumKeys == 2
\* Bounds of SpecConc: the concurrent callers, the tasks they create and the
\* calls they make.
NumProcs == 2
MaxConcTasks == 4
MaxCalls == 5
\* Bound of SpecDup: the tasks add_download_with_policy creates.
MaxDupTasks == 2

\* SpecRecovery: the task ids drawn, by the callers and by the restores
MaxRestored == 4

VARIABLES
    all_tasks,       \* TaskQueueManager.all_tasks: task id -> status, NoTask when absent
    active_tasks,    \* TaskQueueManager.active_tasks: the ids in the active map
    queued_tasks,    \* TaskQueueManager.queued_tasks: the VecDeque, as a sequence of ids
    task_key,        \* the (url, target_path) of each created task, 0 before creation
    next_id,         \* how many TaskId::new() values have been drawn
    event_handlers,  \* TaskQueueManager.event_handlers: the number of registered handlers
    pending,         \* history: the ids appended to the queue and not started since,
                     \* in the order of their (first) append
    pc,              \* SpecConc: where each caller's call stands (its next lock)
    loc,             \* SpecConc: the task id the caller's next step works on
    calls,           \* SpecConc: the number of calls made
    manager,         \* SpecDup: the DownloadManager implementation in use
    aria2,           \* PersistentAria2Manager.aria2: the adapter's tasks, id -> status
    repository,      \* PersistentAria2Manager.repository: the stored tasks, id -> status
    policies,        \* SpecDup: the policies the callers pass to add_download_with_policy
    duplicate_met,   \* history: some add_download_with_policy call found a task of
                     \* its (url, target path) that was non-terminal
    task_mapping,    \* PersistentAria2Manager.task_mapping: task id -> the adapter's
                     \* id the GID was made of, UnknownId when absent
    resubmitted,     \* history: the stored tasks the last startup handed to the adapter
    running,         \* whether a PersistentAria2Manager process is up
    applied,         \* SpecEvents, history: the status changes made in the registry,
                     \* in the order of the writes
    emitted,         \* SpecEvents, history: the StatusChanged events handed to the
                     \* handlers, in the order of the on_status_changed calls
    unsent,          \* SpecEvents: the events each caller has still to send
    poller,          \* SpecShutdown: where the persistence poller's task is
    ids,             \* SpecShutdown: active_task_ids, what is left of the for loop
    permit,          \* SpecShutdown: whether the shutdown Notify holds a permit
    persistence_handle,  \* SpecShutdown: whether the JoinHandle is still stored
    caller,          \* SpecShutdown: where the caller of shutdown() is
    flush,           \* SpecShutdown: tasks of save_all_tasks, what is left of the loop
    mid_iteration,   \* SpecShutdown, history: shutdown() was called during an iteration
    raw_url,       \* SpecUrl: the url given to normalize_url
    normalized,      \* SpecUrl: what normalize_url returned, call after call
    progress,        \* SpecProgress: TaskQueueManager's progress map (no entry: {})
    basic_tasks,     \* SpecProgress: BasicDownloadManager's tasks
    basic_progress,  \* SpecProgress: BasicDownloadManager's progress map
    mock_data,       \* SpecProgress: the start_time of each mock download
    now,             \* SpecProgress: the clock, in seconds
    observed,        \* SpecProgress, history: downloaded_bytes of the last
                     \* get_progress of each task
    current_task,    \* SpecShutdown: the task the adapter gave the poller's get_task
    cancel_returned, \* SpecShutdown, history: the ids cancel_download returned Ok for
    awaiting,        \* SpecLocks: what each caller has still to do of its call
    guards,          \* SpecLocks: the lock guards each caller holds
    waiters          \* SpecLocks: the callers queued at each lock, first come first

recVars == <<task_mapping, resubmitted, running>>

evVars == <<applied, emitted, unsent>>

shutVars == <<poller, ids, permit, persistence_handle, caller, flush, mid_iteration>>

urlVars == <<raw_url, normalized>>

\* The variables of the specifications that stand beside the managers'.
progVars == <<progress, basic_tasks, basic_progress, mock_data, now, observed>>

\* What the poller holds of a task between its get_task and its save_task,
\* and the cancels there have been.
pollVars == <<current_task, cancel_returned>>

lockVars == <<awaiting, guards, waiters>>

asideVars == <<urlVars, progVars, pollVars, lockVars>>

dupVars == <<manager, aria2, repository, policies, duplicate_met, recVars, evVars, shutVars,
             asideVars>>

vars == <<all_tasks, active_tasks, queued_tasks, task_key, next_id,
          event_handlers, pending, pc, loc, calls, dupVars>>

NoTask == "NoTask"
DownloadStatus == {"Waiting", "Downloading", "Paused", "Completed", "Failed"}
DuplicatePolicy == {"ReuseExisting", "AllowDuplicate", "PromptUser",
                    "ReuseIfComplete", "ReuseIfIncomplete", "FailIfDuplicate"}

\* An id no add_task call ever returned (a TaskId::new() of the caller's own).
UnknownId == 0
TaskIds == 1..MaxTasks
AllIds == {UnknownId} \cup TaskIds
Keys == 1..NumKeys
Procs == 1..NumProcs

---------------------------------------------------------------------------
(* DownloadStatus predicates *)

is_active(s) == s = "Downloading"

is_finished(s) == s \in {"Completed", "Failed"}

can_resume(s) == s \in {"Paused", "Failed"}

\* can_pause with every status accepted.
can_pause_always(s) == TRUE

can_pause(s) == s \in {"Downloading", "Waiting"}

---------------------------------------------------------------------------
(* DuplicatePolicy *)

\* allows_reuse with every policy read as ReuseIfComplete.
allows_reuse_if_complete(policy, status) == status = "Completed"

\* allows_reuse with every policy read as ReuseIfIncomplete.
allows_reuse_unless_complete(policy, status) == status # "Completed"

allows_reuse(policy, status) ==
    CASE policy = "ReuseExisting" -> TRUE
      [] policy = "AllowDuplicate" -> FALSE
      [] policy = "PromptUser" -> FALSE
      [] policy = "ReuseIfComplete" -> status = "Completed"
      [] policy = "ReuseIfIncomplete" ->
             status \in {"Waiting", "Downloading", "Paused", "Failed"}
      [] policy = "FailIfDuplicate" -> FALSE

\* should_fail_on_duplicate with no policy failing.
should_fail_never(policy) == FALSE

should_fail_on_duplicate(policy) == policy = "FailIfDuplicate"

---------------------------------------------------------------------------
(* The manager as a value: the three collections, and what the call in     *)
(* progress has emitted and returned so far.                               *)

Self ==
    [all_tasks |-> all_tasks, active_tasks |-> active_tasks,
     queued_tasks |-> queued_tasks, events |-> <<>>, muts |-> <<>>,
     pushed |-> {}, ret |-> "Ok", id |-> UnknownId]

StatusChange(task_id, old, new) == [task_id |-> task_id, old |-> old, new |-> new]

\* for handler in handlers.iter() { handler.on_status_changed(..) }
notify_status_changed(x, task_id, old_status, new_status) ==
    [x EXCEPT !.events = @ \o
        [h \in 1..event_handlers |->
            [handler |-> h, task_id |-> task_id, old |-> old_status, new |-> new_status]]]

\* self.active_tasks.read().await.len() < MAX_CONCURRENT_DOWNLOADS
SlotAvailable(x) == Cardinality(x.active_tasks) < MAX_CONCURRENT_DOWNLOADS

\* self.active_tasks.write().await.insert(task_id, task)
ActiveInsert(x, task_id) == [x EXCEPT !.active_tasks = @ \cup {task_id}]

\* self.active_tasks.write().await.remove(&task_id)
ActiveRemove(x, task_id) == [x EXCEPT !.active_tasks = @ \ {task_id}]

\* self.queued_tasks.lock().await.push_back(task)
PushBack(x, task_id) ==
    [x EXCEPT !.queued_tasks = Append(@, task_id), !.pushed = @ \cup {task_id}]

\* queue.pop_front(), on a non-empty queue
PopFront(x) == [x EXCEPT !.queued_tasks = Tail(@)]

\* queue.retain(|task| task.id != task_id)
QueueRetain(x, task_id) ==
    [x EXCEPT !.queued_tasks = SelectSeq(@, LAMBDA t : t # task_id)]

\* The registry status a status-change starts from: a task object that is not in
\* the registry yet is a fresh DownloadTask::new, whose status is Waiting.
RegistryStatus(x, task_id) ==
    IF x.all_tasks[task_id] = NoTask THEN "Waiting" ELSE x.all_tasks[task_id]

\* task.update_status(status) on the registry's record (get_mut), or on a copy
\* that all_tasks.insert then puts in the record's place.
SetStatus(x, task_id, status) ==
    [x EXCEPT !.all_tasks[task_id] = status,
              !.muts = Append(@, StatusChange(task_id, RegistryStatus(x, task_id), status))]

\* self.all_tasks.write().await.insert(task_id, task) of a task still Waiting
RegistryInsertWaiting(x, task_id) == [x EXCEPT !.all_tasks[task_id] = "Waiting"]

\* self.all_tasks.write().await.remove(&task_id)
RegistryRemove(x, task_id) == [x EXCEPT !.all_tasks[task_id] = NoTask]

Fail(x, error) == [x EXCEPT !.ret = error]

---------------------------------------------------------------------------
(* TaskQueueManager's handlers, each the composition of its steps *)

try_start_next_queued_task(x) ==
    IF ~SlotAvailable(x) THEN x
    ELSE IF x.queued_tasks = <<>> THEN x
    ELSE LET task_id == Head(x.queued_tasks)
             x1 == PopFront(x)
             x2 == SetStatus(x1, task_id, "Downloading")
             x3 == ActiveInsert(x2, task_id)
         IN  notify_status_changed(x3, task_id, "Waiting", "Downloading")

add_task(x, task_id) ==
    IF SlotAvailable(x)
    THEN LET x1 == ActiveInsert(x, task_id)
             x2 == SetStatus(x1, task_id, "Downloading")
         IN  notify_status_changed(x2, task_id, "Waiting", "Downloading")
    ELSE RegistryInsertWaiting(PushBack(x, task_id), task_id)

pause_task(x, task_id) ==
    IF x.all_tasks[task_id] = NoTask THEN Fail(x, "TaskNotFound")
    ELSE IF ~can_pause(x.all_tasks[task_id]) THEN Fail(x, "Error")
    ELSE LET old_status == x.all_tasks[task_id]
             x1 == SetStatus(x, task_id, "Paused")
             x2 == ActiveRemove(x1, task_id)
             x3 == try_start_next_queued_task(x2)
         IN  notify_status_changed(x3, task_id, old_status, "Paused")

resume_task(x, task_id) ==
    IF x.all_tasks[task_id] = NoTask THEN Fail(x, "TaskNotFound")
    ELSE IF ~can_resume(x.all_tasks[task_id]) THEN Fail(x, "Error")
    ELSE LET old_status == x.all_tasks[task_id]
             new_status == IF SlotAvailable(x) THEN "Downloading" ELSE "Waiting"
             x1 == SetStatus(x, task_id, new_status)
             x2 == IF new_status = "Downloading"
                   THEN ActiveInsert(x1, task_id)
                   ELSE PushBack(x1, task_id)
         IN  notify_status_changed(x2, task_id, old_status, new_status)

cancel_task(x, task_id) ==
    LET x1 == RegistryRemove(x, task_id)
        x2 == ActiveRemove(x1, task_id)
        x3 == QueueRetain(x2, task_id)
    IN  try_start_next_queued_task(x3)

\* complete_task and fail_task differ in the status they set only.
finish_task(x, task_id, status) ==
    LET known == x.all_tasks[task_id] # NoTask
        old_status == x.all_tasks[task_id]
        x1 == IF known THEN SetStatus(x, task_id, status) ELSE x
        x2 == ActiveRemove(x1, task_id)
        x3 == try_start_next_queued_task(x2)
    IN  IF known THEN notify_status_changed(x3, task_id, old_status, status) ELSE x3

complete_task(x, task_id) == finish_task(x, task_id, "Completed")

fail_task(x, task_id) == finish_task(x, task_id, "Failed")

(* The (url, target path) pairs the callers name.  A url is kept as the     *)
(* parts normalize_url works on: scheme, explicit port (none: {}), query    *)
(* (none: {}, else the set of the one query string, a sequence of ASCII     *)
(* codes: 37 %, 38 &, 43 +, 61 =, 49 1, 50 2, 97 a, 98 b) and fragment      *)
(* (none: {}).  Keys 1 and 2 are one file written in two ways                *)
(* (b=2&a=1 and a=1&b=2); the others differ in the target path.             *)
Url(key) ==
    CASE key = 1 -> [scheme |-> "https", port |-> {443},
                     query |-> {<<98, 61, 50, 38, 97, 61, 49>>},
                     fragment |-> {"section"}]
      [] key = 2 -> [scheme |-> "https", port |-> {},
                     query |-> {<<97, 61, 49, 38, 98, 61, 50>>},
                     fragment |-> {}]
      [] OTHER -> [scheme |-> "https", port |-> {}, query |-> {<<97, 61, 49>>},
                   fragment |-> {}]

TargetPath(key) == IF key <= 2 THEN 1 ELSE key

\* task.url == url && task.target_path == target_path
SameUrlAndPath(key1, key2) ==
    Url(key1) = Url(key2) /\ TargetPath(key1) = TargetPath(key2)

\* The position of the first c in s, Len(s) + 1 when there is none.
RECURSIVE Find(_, _)
Find(s, c) ==
    IF s = <<>> \/ Head(s) = c THEN 1 ELSE 1 + Find(Tail(s), c)

\* s.split(c)
RECURSIVE Split(_, _)
Split(s, c) ==
    LET i == Find(s, c)
    IN  IF i > Len(s) THEN <<s>>
        ELSE <<SubSeq(s, 1, i - 1)>> \o Split(SubSeq(s, i + 1, Len(s)), c)

IsHex(c) == c \in (48..57) \cup (65..70) \cup (97..102)

HexValue(c) == IF c <= 57 THEN c - 48 ELSE IF c <= 70 THEN c - 55 ELSE c - 87

HexDigit(n) == IF n < 10 THEN 48 + n ELSE 55 + n

\* form_urlencoded's decode: + is a space, %XX is the byte XX
RECURSIVE decode(_)
decode(s) ==
    IF s = <<>> THEN <<>>
    ELSE IF Head(s) = 37 /\ Len(s) >= 3 /\ IsHex(s[2]) /\ IsHex(s[3])
    THEN <<16 * HexValue(s[2]) + HexValue(s[3])>> \o decode(SubSeq(s, 4, Len(s)))
    ELSE IF Head(s) = 43 THEN <<32>> \o decode(Tail(s))
    ELSE <<Head(s)>> \o decode(Tail(s))

\* Url::query_pairs over the segments between the &: empty segments are
\* skipped, a segment is cut at its first =, name and value are decoded
RECURSIVE pairs_of(_)
pairs_of(segments) ==
    IF segments = <<>> THEN <<>>
    ELSE LET seg == Head(segments)
             i == Find(seg, 61)
         IN  (IF seg = <<>> THEN <<>>
              ELSE << <<decode(SubSeq(seg, 1, i - 1)), decode(SubSeq(seg, i + 1, Len(seg)))>> >>)
             \o pairs_of(Tail(segments))

query_pairs(query) == pairs_of(Split(query, 38))

\* The order of String: byte by byte, a prefix first
RECURSIVE StringLeq(_, _)
StringLeq(s, t) ==
    IF s = <<>> THEN TRUE
    ELSE IF t = <<>> THEN FALSE
    ELSE IF Head(s) # Head(t) THEN Head(s) < Head(t)
    ELSE StringLeq(Tail(s), Tail(t))

\* The order of (String, String)
PairLeq(p, q) == IF p[1] = q[1] THEN StringLeq(p[2], q[2]) ELSE StringLeq(p[1], q[1])

RECURSIVE InsertSorted(_, _)
InsertSorted(p, params) ==
    IF params = <<>> THEN <<p>>
    ELSE IF PairLeq(p, Head(params)) THEN <<p>> \o params
    ELSE <<Head(params)>> \o InsertSorted(p, Tail(params))

\* params.sort()
RECURSIVE sort(_)
sort(params) ==
    IF params = <<>> THEN <<>> ELSE InsertSorted(Head(params), sort(Tail(params)))

\* params.iter().map(|(k, v)| format!("{}={}", k, v)).collect().join("&")
RECURSIVE join(_)
join(params) ==
    IF params = <<>> THEN <<>>
    ELSE Head(params)[1] \o <<61>> \o Head(params)[2]
         \o (IF Tail(params) = <<>> THEN <<>> ELSE <<38>> \o join(Tail(params)))

\* The bytes Url::set_query percent-encodes in the query of an http(s) url:
\* space, ", #, ', <, >
QueryEncodeSet == {32, 34, 35, 39, 60, 62}

\* Url::set_query(Some(query)): the query as the url keeps it
RECURSIVE set_query(_)
set_query(s) ==
    IF s = <<>> THEN <<>>
    ELSE (IF Head(s) \in QueryEncodeSet
          THEN <<37, HexDigit(Head(s) \div 16), HexDigit(Head(s) % 16)>>
          ELSE <<Head(s)>>) \o set_query(Tail(s))

\* normalize_url: no fragment, no default port, query parameters sorted
normalize_url(input_url) ==
    LET parsed == [input_url EXCEPT !.fragment = {}]
        default_port == \/ parsed.scheme = "http" /\ parsed.port = {80}
                        \/ parsed.scheme = "https" /\ parsed.port = {443}
        ported == IF default_port THEN [parsed EXCEPT !.port = {}] ELSE parsed
        Sorted(query) == LET params == sort(query_pairs(query))
                         IN  IF params # <<>> THEN {set_query(join(params))} ELSE {}
    IN  [ported EXCEPT !.query = UNION {Sorted(query) : query \in ported.query}]

\* find_duplicate_task returns the first match of all_tasks.values(), whose order
\* is the HashMap's: any of the matches.
DuplicateMatches(x, key) ==
    {t \in TaskIds : x.all_tasks[t] # NoTask /\ SameUrlAndPath(task_key[t], key)}

---------------------------------------------------------------------------
(* Spec: calls made one at a time *)

Range(seq) == {seq[i] : i \in 1..Len(seq)}

\* The locks of TaskQueueManager (manager.rs 16-25).
LockNames == {"all_tasks", "active_tasks", "queued_tasks", "progress", "event_handlers"}

\* Nothing has been given to the functions that stand beside the managers.
InitAside ==
    /\ raw_url = Url(1)
    /\ normalized = <<>>
    /\ progress = [t \in AllIds |-> {}]
    /\ basic_tasks = [t \in AllIds |-> NoTask]
    /\ basic_progress = [t \in AllIds |-> {}]
    /\ mock_data = [t \in AllIds |-> {}]
    /\ now = 0
    /\ observed = [t \in AllIds |-> {}]
    /\ current_task = NoTask
    /\ cancel_returned = {}
    /\ awaiting = [p \in Procs |-> <<>>]
    /\ guards = [p \in Procs |-> {}]
    /\ waiters = [lk \in LockNames |-> <<>>]

Init ==
    /\ all_tasks = [t \in AllIds |-> NoTask]
    /\ active_tasks = {}
    /\ queued_tasks = <<>>
    /\ task_key = [t \in TaskIds |-> 0]
    /\ next_id = 0
    /\ event_handlers = 0
    /\ pending = <<>>
    /\ pc = [p \in Procs |-> "idle"]
    /\ loc = [p \in Procs |-> UnknownId]
    /\ calls = 0
    /\ manager = "TaskQueueManager"
    /\ aria2 = [t \in AllIds |-> NoTask]
    /\ repository = [t \in AllIds |-> NoTask]
    /\ policies = DuplicatePolicy
    /\ duplicate_met = FALSE
    /\ task_mapping = [t \in AllIds |-> UnknownId]
    /\ resubmitted = {}
    /\ running = TRUE
    /\ applied = <<>>
    /\ emitted = <<>>
    /\ unsent = [p \in Procs |-> <<>>]
    /\ poller = "select"
    /\ ids = <<>>
    /\ permit = FALSE
    /\ persistence_handle = TRUE
    /\ caller = "idle"
    /\ flush = <<>>
    /\ mid_iteration = FALSE
    /\ InitAside

\* The ids a caller can name: those handed out so far, and one never handed out.
KnownIds == {UnknownId} \cup (1..next_id)

\* The ids whose status the call set to Downloading.
Started(y) == {y.muts[i].task_id : i \in {j \in 1..Len(y.muts) : y.muts[j].new = "Downloading"}}

\* The history after a call: started and cancelled ids leave it, appended ids join.
PendingAfter(y, cancelled) ==
    LET kept == SelectSeq(pending, LAMBDA t : t \notin Started(y) \cup cancelled)
        new == y.pushed \ Range(kept)
    IN  IF new = {} THEN kept ELSE Append(kept, CHOOSE t \in new : TRUE)

Install(y, cancelled) ==
    /\ Len(y.queued_tasks) <= MaxQueue
    /\ all_tasks' = y.all_tasks
    /\ active_tasks' = y.active_tasks
    /\ queued_tasks' = y.queued_tasks
    /\ pending' = PendingAfter(y, cancelled)

AddTask(key) ==
    /\ next_id < MaxTasks
    /\ next_id' = next_id + 1
    /\ task_key' = [task_key EXCEPT ![next_id + 1] = key]
    /\ Install(add_task(Self, next_id + 1), {})
    /\ UNCHANGED <<event_handlers, pc, loc, calls, dupVars>>

PauseTask(task_id) ==
    /\ Install(pause_task(Self, task_id), {})
    /\ UNCHANGED <<task_key, next_id, event_handlers, pc, loc, calls, dupVars>>

ResumeTask(task_id) ==
    /\ Install(resume_task(Self, task_id), {})
    /\ UNCHANGED <<task_key, next_id, event_handlers, pc, loc, calls, dupVars>>

CancelTask(task_id) ==
    /\ Install(cancel_task(Self, task_id), {task_id})
    /\ UNCHANGED <<task_key, next_id, event_handlers, pc, loc, calls, dupVars>>

CompleteTask(task_id) ==
    /\ Install(complete_task(Self, task_id), {})
    /\ UNCHANGED <<task_key, next_id, event_handlers, pc, loc, calls, dupVars>>

FailTask(task_id) ==
    /\ Install(fail_task(Self, task_id), {})
    /\ UNCHANGED <<task_key, next_id, event_handlers, pc, loc, calls, dupVars>>

AddEventHandler ==
    /\ event_handlers < MaxHandlers
    /\ event_handlers' = event_handlers + 1
    /\ UNCHANGED <<all_tasks, active_tasks, queued_tasks, task_key, next_id, pending,
                   pc, loc, calls, dupVars>>

Next ==
    \/ AddTask(1)
    \/ \E task_id \in KnownIds : PauseTask(task_id)
    \/ \E task_id \in KnownIds : ResumeTask(task_id)
    \/ \E task_id \in KnownIds : CancelTask(task_id)
    \/ \E task_id \in KnownIds : CompleteTask(task_id)
    \/ \E task_id \in KnownIds : FailTask(task_id)
    \/ AddEventHandler

Spec == Init /\ [][Next]_vars

---------------------------------------------------------------------------
(* SpecConc: the calls of NumProcs concurrent callers, interleaved.  A step *)
(* is what a handler does under one lock acquisition: the locks are taken   *)
(* and released one at a time, so another caller's step can come between    *)
(* any two.  (resume_task reads the active count while it holds the         *)
(* registry's write lock; the read and the registry update are one step,    *)
(* placed where the count is read.)  notify_status_changed changes nothing  *)
(* of the manager and is no step here.                                      *)

Core(y) ==
    /\ all_tasks' = y.all_tasks
    /\ active_tasks' = y.active_tasks
    /\ queued_tasks' = y.queued_tasks

Goto(p, label, task_id) ==
    /\ pc' = [pc EXCEPT ![p] = label]
    /\ loc' = [loc EXCEPT ![p] = task_id]

\* A call starts: the caller is between calls.
Begin(p) ==
    /\ pc[p] = "idle"
    /\ calls < MaxCalls
    /\ calls' = calls + 1
    /\ UNCHANGED <<event_handlers, pending, dupVars>>

\* The queue's bound: the entries it holds and those callers are about to push.
QueueRoom ==
    Len(queued_tasks)
    + Cardinality({q \in Procs : pc[q] \in {"add_push_back", "resume_push_back"}})
    < MaxQueue

\* add_task: DownloadTask::new, and the read of the active count
BeginAddTask(p, key) ==
    /\ Begin(p)
    /\ next_id < MaxConcTasks
    /\ next_id' = next_id + 1
    /\ task_key' = [task_key EXCEPT ![next_id + 1] = key]
    /\ IF SlotAvailable(Self)
       THEN Goto(p, "add_insert_active", next_id + 1)
       ELSE QueueRoom /\ Goto(p, "add_push_back", next_id + 1)
    /\ UNCHANGED <<all_tasks, active_tasks, queued_tasks>>

AddInsertActive(p) ==
    /\ pc[p] = "add_insert_active"
    /\ Core(ActiveInsert(Self, loc[p]))
    /\ Goto(p, "add_insert_all", loc[p])
    /\ UNCHANGED <<task_key, next_id, calls, event_handlers, pending, dupVars>>

AddInsertAll(p) ==
    /\ pc[p] = "add_insert_all"
    /\ Core(SetStatus(Self, loc[p], "Downloading"))
    /\ Goto(p, "idle", UnknownId)
    /\ UNCHANGED <<task_key, next_id, calls, event_handlers, pending, dupVars>>

AddPushBack(p) ==
    /\ pc[p] = "add_push_back"
    /\ Core(PushBack(Self, loc[p]))
    /\ Goto(p, "add_insert_waiting", loc[p])
    /\ UNCHANGED <<task_key, next_id, calls, event_handlers, pending, dupVars>>

AddInsertWaiting(p) ==
    /\ pc[p] = "add_insert_waiting"
    /\ Core(RegistryInsertWaiting(Self, loc[p]))
    /\ Goto(p, "idle", UnknownId)
    /\ UNCHANGED <<task_key, next_id, calls, event_handlers, pending, dupVars>>

\* pause_task: the block under all_tasks.write()
BeginPauseTask(p, task_id) ==
    /\ Begin(p)
    /\ IF all_tasks[task_id] # NoTask /\ can_pause(all_tasks[task_id])
       THEN /\ Core(SetStatus(Self, task_id, "Paused"))
            /\ Goto(p, "remove_active", task_id)
       ELSE UNCHANGED <<all_tasks, active_tasks, queued_tasks, pc, loc>>
    /\ UNCHANGED <<task_key, next_id>>

\* complete_task, fail_task: the block under all_tasks.write()
BeginFinishTask(p, task_id, status) ==
    /\ Begin(p)
    /\ IF all_tasks[task_id] # NoTask
       THEN Core(SetStatus(Self, task_id, status))
       ELSE UNCHANGED <<all_tasks, active_tasks, queued_tasks>>
    /\ Goto(p, "remove_active", task_id)
    /\ UNCHANGED <<task_key, next_id>>

\* pause_task, complete_task, fail_task: self.active_tasks.write().await.remove
RemoveActive(p) ==
    /\ pc[p] = "remove_active"
    /\ Core(ActiveRemove(Self, loc[p]))
    /\ Goto(p, "try_check", UnknownId)
    /\ UNCHANGED <<task_key, next_id, calls, event_handlers, pending, dupVars>>

\* resume_task: the block under all_tasks.write()
BeginResumeTask(p, task_id) ==
    /\ Begin(p)
    /\ IF all_tasks[task_id] # NoTask /\ can_resume(all_tasks[task_id])
       THEN IF SlotAvailable(Self)
            THEN /\ Core(SetStatus(Self, task_id, "Downloading"))
                 /\ Goto(p, "resume_insert_active", task_id)
            ELSE /\ QueueRoom
                 /\ Core(SetStatus(Self, task_id, "Waiting"))
                 /\ Goto(p, "resume_push_back", task_id)
       ELSE UNCHANGED <<all_tasks, active_tasks, queued_tasks, pc, loc>>
    /\ UNCHANGED <<task_key, next_id>>

ResumeInsertActive(p) ==
    /\ pc[p] = "resume_insert_active"
    /\ Core(ActiveInsert(Self, loc[p]))
    /\ Goto(p, "idle", UnknownId)
    /\ UNCHANGED <<task_key, next_id, calls, event_handlers, pending, dupVars>>

ResumePushBack(p) ==
    /\ pc[p] = "resume_push_back"
    /\ Core(PushBack(Self, loc[p]))
    /\ Goto(p, "idle", UnknownId)
    /\ UNCHANGED <<task_key, next_id, calls, event_handlers, pending, dupVars>>

\* cancel_task: self.all_tasks.write().await.remove
BeginCancelTask(p, task_id) ==
    /\ Begin(p)
    /\ Core(RegistryRemove(Self, task_id))
    /\ Goto(p, "cancel_remove_active", task_id)
    /\ UNCHANGED <<task_key, next_id>>

CancelRemoveActive(p) ==
    /\ pc[p] = "cancel_remove_active"
    /\ Core(ActiveRemove(Self, loc[p]))
    /\ Goto(p, "cancel_retain", loc[p])
    /\ UNCHANGED <<task_key, next_id, calls, event_handlers, pending, dupVars>>

CancelRetain(p) ==
    /\ pc[p] = "cancel_retain"
    /\ Core(QueueRetain(Self, loc[p]))
    /\ Goto(p, "try_check", UnknownId)
    /\ UNCHANGED <<task_key, next_id, calls, event_handlers, pending, dupVars>>

\* try_start_next_queued_task: the read of the active count
TryCheck(p) ==
    /\ pc[p] = "try_check"
    /\ Goto(p, IF SlotAvailable(Self) THEN "try_pop" ELSE "idle", UnknownId)
    /\ UNCHANGED <<all_tasks, active_tasks, queued_tasks, task_key, next_id, calls,
                   event_handlers, pending, dupVars>>

\* try_start_next_queued_task: queue.pop_front()
TryPop(p) ==
    /\ pc[p] = "try_pop"
    /\ IF queued_tasks = <<>>
       THEN /\ Goto(p, "idle", UnknownId)
            /\ UNCHANGED <<all_tasks, active_tasks, queued_tasks>>
       ELSE /\ Core(PopFront(Self))
            /\ Goto(p, "try_insert_all", Head(queued_tasks))
    /\ UNCHANGED <<task_key, next_id, calls, event_handlers, pending, dupVars>>

\* try_start_next_queued_task: all_tasks.insert(task_id, task.clone())
TryInsertAll(p) ==
    /\ pc[p] = "try_insert_all"
    /\ Core(SetStatus(Self, loc[p], "Downloading"))
    /\ Goto(p, "try_insert_active", loc[p])
    /\ UNCHANGED <<task_key, next_id, calls, event_handlers, pending, dupVars>>

\* try_start_next_queued_task: self.active_tasks.write().await.insert
TryInsertActive(p) ==
    /\ pc[p] = "try_insert_active"
    /\ Core(ActiveInsert(Self, loc[p]))
    /\ Goto(p, "idle", UnknownId)
    /\ UNCHANGED <<task_key, next_id, calls, event_handlers, pending, dupVars>>

NextConc ==
    \E p \in Procs :
        \/ BeginAddTask(p, 1)
        \/ AddInsertActive(p)
        \/ AddInsertAll(p)
        \/ AddPushBack(p)
        \/ AddInsertWaiting(p)
        \/ \E task_id \in KnownIds : BeginPauseTask(p, task_id)
        \/ \E task_id \in KnownIds : BeginFinishTask(p, task_id, "Completed")
        \/ \E task_id \in KnownIds : BeginFinishTask(p, task_id, "Failed")
        \/ RemoveActive(p)
        \/ \E task_id \in KnownIds : BeginResumeTask(p, task_id)
        \/ ResumeInsertActive(p)
        \/ ResumePushBack(p)
        \/ \E task_id \in KnownIds : BeginCancelTask(p, task_id)
        \/ CancelRemoveActive(p)
        \/ CancelRetain(p)
        \/ TryCheck(p)
        \/ TryPop(p)
        \/ TryInsertAll(p)
        \/ TryInsertActive(p)

SpecConc == Init /\ [][NextConc]_vars

---------------------------------------------------------------------------
(* SpecEvents: pause_task and resume_task calls of concurrent callers on    *)
(* the tasks of a full active set, with the events.  A step is what the     *)
(* handler does under one lock acquisition, as in SpecConc, and             *)
(* notify_status_changed is a step of its own: it runs after the locks are  *)
(* released.  The manager starts with MAX_CONCURRENT_DOWNLOADS tasks added  *)
(* and one handler registered.                                              *)

EventsUnchanged ==
    UNCHANGED <<task_key, next_id, event_handlers, pending, manager, aria2, repository,
                policies, duplicate_met, recVars, shutVars, asideVars>>

\* The record of a status change of the registry, and the event later sent.
Hold(p, y) ==
    /\ applied' = applied \o y.muts
    /\ unsent' = [unsent EXCEPT ![p] = y.events \o @]
    /\ UNCHANGED emitted

\* pause_task: the block under all_tasks.write()
EventsPauseTask(p, task_id) ==
    /\ pc[p] = "idle" /\ calls < MaxCalls
    /\ all_tasks[task_id] # NoTask /\ can_pause(all_tasks[task_id])
    /\ calls' = calls + 1
    /\ LET y == notify_status_changed(SetStatus(Self, task_id, "Paused"), task_id,
                                      all_tasks[task_id], "Paused")
       IN  Core(y) /\ Hold(p, y)
    /\ Goto(p, "remove_active", task_id)
    /\ EventsUnchanged

\* pause_task: self.active_tasks.write().await.remove
EventsRemoveActive(p) ==
    /\ pc[p] = "remove_active"
    /\ Core(ActiveRemove(Self, loc[p]))
    /\ Goto(p, "try_check", UnknownId)
    /\ UNCHANGED <<calls, evVars>>
    /\ EventsUnchanged

\* try_start_next_queued_task: the read of the active count
EventsTryCheck(p) ==
    /\ pc[p] = "try_check"
    /\ Goto(p, IF SlotAvailable(Self) THEN "try_pop" ELSE "notify", UnknownId)
    /\ UNCHANGED <<all_tasks, active_tasks, queued_tasks, calls, evVars>>
    /\ EventsUnchanged

\* try_start_next_queued_task: queue.pop_front()
EventsTryPop(p) ==
    /\ pc[p] = "try_pop"
    /\ IF queued_tasks = <<>>
       THEN /\ Goto(p, "notify", UnknownId)
            /\ UNCHANGED <<all_tasks, active_tasks, queued_tasks>>
       ELSE /\ Core(PopFront(Self))
            /\ Goto(p, "try_insert_all", Head(queued_tasks))
    /\ UNCHANGED <<calls, evVars>>
    /\ EventsUnchanged

\* try_start_next_queued_task: update_status and all_tasks.write().await.insert;
\* the event it will send says Waiting -> Downloading
EventsTryInsertAll(p) ==
    /\ pc[p] = "try_insert_all"
    /\ LET y == notify_status_changed(SetStatus(Self, loc[p], "Downloading"), loc[p],
                                      "Waiting", "Downloading")
       IN  Core(y) /\ Hold(p, y)
    /\ Goto(p, "try_insert_active", loc[p])
    /\ UNCHANGED calls
    /\ EventsUnchanged

\* try_start_next_queued_task: self.active_tasks.write().await.insert
EventsTryInsertActive(p) ==
    /\ pc[p] = "try_insert_active"
    /\ Core(ActiveInsert(Self, loc[p]))
    /\ Goto(p, "try_notify", UnknownId)
    /\ UNCHANGED <<calls, evVars>>
    /\ EventsUnchanged

\* resume_task: the block under all_tasks.write(), with the read of the
\* active count
EventsResumeTask(p, task_id) ==
    /\ pc[p] = "idle" /\ calls < MaxCalls
    /\ all_tasks[task_id] # NoTask /\ can_resume(all_tasks[task_id])
    /\ calls' = calls + 1
    /\ LET new_status == IF SlotAvailable(Self) THEN "Downloading" ELSE "Waiting"
           y == notify_status_changed(SetStatus(Self, task_id, new_status), task_id,
                                      all_tasks[task_id], new_status)
       IN  /\ new_status = "Waiting" => QueueRoom
           /\ Core(y) /\ Hold(p, y)
           /\ Goto(p, IF new_status = "Downloading" THEN "resume_insert_active"
                      ELSE "resume_push_back", task_id)
    /\ EventsUnchanged

\* resume_task: self.active_tasks.write().await.insert
EventsResumeInsertActive(p) ==
    /\ pc[p] = "resume_insert_active"
    /\ Core(ActiveInsert(Self, loc[p]))
    /\ Goto(p, "notify", UnknownId)
    /\ UNCHANGED <<calls, evVars>>
    /\ EventsUnchanged

\* resume_task: self.queued_tasks.lock().await.push_back
EventsResumePushBack(p) ==
    /\ pc[p] = "resume_push_back"
    /\ Core(PushBack(Self, loc[p]))
    /\ Goto(p, "notify", UnknownId)
    /\ UNCHANGED <<calls, evVars>>
    /\ EventsUnchanged

\* notify_status_changed: of try_start_next_queued_task (the caller's own
\* notification follows), or of pause_task and resume_task (the call returns)
EventsNotify(p) ==
    /\ pc[p] \in {"try_notify", "notify"}
    /\ IF unsent[p] = <<>> THEN UNCHANGED <<emitted, unsent>>
       ELSE /\ emitted' = Append(emitted, Head(unsent[p]))
            /\ unsent' = [unsent EXCEPT ![p] = Tail(@)]
    /\ Goto(p, IF pc[p] = "try_notify" THEN "notify" ELSE "idle", UnknownId)
    /\ UNCHANGED <<all_tasks, active_tasks, queued_tasks, calls, applied>>
    /\ EventsUnchanged

InitEvents ==
    /\ all_tasks = [t \in AllIds |-> IF t \in 1..MAX_CONCURRENT_DOWNLOADS
                                     THEN "Downloading" ELSE NoTask]
    /\ active_tasks = 1..MAX_CONCURRENT_DOWNLOADS
    /\ queued_tasks = <<>>
    /\ task_key = [t \in TaskIds |-> IF t \in 1..MAX_CONCURRENT_DOWNLOADS THEN 1 ELSE 0]
    /\ next_id = MAX_CONCURRENT_DOWNLOADS
    /\ event_handlers = 1
    /\ pending = <<>>
    /\ pc = [p \in Procs |-> "idle"]
    /\ loc = [p \in Procs |-> UnknownId]
    /\ calls = 0
    /\ manager = "TaskQueueManager"
    /\ aria2 = [t \in AllIds |-> NoTask]
    /\ repository = [t \in AllIds |-> NoTask]
    /\ policies = DuplicatePolicy
    /\ duplicate_met = FALSE
    /\ task_mapping = [t \in AllIds |-> UnknownId]
    /\ resubmitted = {}
    /\ running = TRUE
    /\ applied = <<>>
    /\ emitted = <<>>
    /\ unsent = [p \in Procs |-> <<>>]
    /\ poller = "select"
    /\ ids = <<>>
    /\ permit = FALSE
    /\ persistence_handle = TRUE
    /\ caller = "idle"
    /\ flush = <<>>
    /\ mid_iteration = FALSE
    /\ InitAside

NextEvents ==
    \/ \E p \in Procs, task_id \in 1..MAX_CONCURRENT_DOWNLOADS : EventsPauseTask(p, task_id)
    \/ \E p \in Procs, task_id \in 1..MAX_CONCURRENT_DOWNLOADS : EventsResumeTask(p, task_id)
    \/ \E p \in Procs : EventsRemoveActive(p)
    \/ \E p \in Procs : EventsTryCheck(p)
    \/ \E p \in Procs : EventsTryPop(p)
    \/ \E p \in Procs : EventsTryInsertAll(p)
    \/ \E p \in Procs : EventsTryInsertActive(p)
    \/ \E p \in Procs : EventsResumeInsertActive(p)
    \/ \E p \in Procs : EventsResumePushBack(p)
    \/ \E p \in Procs : EventsNotify(p)

SpecEvents == InitEvents /\ [][NextEvents]_vars

---------------------------------------------------------------------------
(* SpecDup: add_download_with_policy, one call at a time.  The manager is  *)
(* a TaskQueueManager or a PersistentAria2Manager; the tasks are created   *)
(* by add_download_with_policy only, and the other operations of the       *)
(* manager change their statuses between the calls.                        *)

\* TaskStatus::from_download_status
from_download_status(status) ==
    CASE status = "Waiting" -> "Waiting"
      [] status = "Downloading" -> "Downloading"
      [] status = "Paused" -> "Paused"
      [] status = "Completed" -> "Completed"
      [] status = "Failed" -> "Failed"

\* TaskQueueManager::find_duplicate_task returns the first match of
\* all_tasks.values(), whose order is the HashMap's: any of the matches.
\* UnknownId stands for None.
find_duplicate_task(x, key) ==
    IF DuplicateMatches(x, key) = {} THEN {UnknownId} ELSE DuplicateMatches(x, key)

\* TaskQueueManager::add_download_with_policy, existing being what
\* find_duplicate_task returned and task_id the id of a task it creates
add_download_with_policy(x, policy, existing, task_id) ==
    IF existing # UnknownId
          /\ allows_reuse(policy, from_download_status(x.all_tasks[existing]))
    THEN [x EXCEPT !.ret = "ExistingTask", !.id = existing]
    ELSE IF existing # UnknownId /\ should_fail_on_duplicate(policy)
    THEN [x EXCEPT !.ret = "PolicyViolation", !.id = existing]
    ELSE [add_task(x, task_id) EXCEPT !.ret = "NewTask", !.id = task_id]

NonTerminal(s) == s \in {"Waiting", "Downloading", "Paused"}

\* What a call of add_download_with_policy leaves behind: the id it drew (drawn:
\* whether it created a task), and whether the task it found (of status found)
\* was non-terminal.
Admit(key, drawn, found) ==
    /\ drawn => next_id < MaxDupTasks
    /\ IF drawn
       THEN /\ next_id' = next_id + 1
            /\ task_key' = [task_key EXCEPT ![next_id + 1] = key]
       ELSE UNCHANGED <<next_id, task_key>>
    /\ duplicate_met' = (duplicate_met \/ NonTerminal(found))
    /\ UNCHANGED <<policies, resubmitted, running>>

\* The (url, target path) values a call can name, up to renaming: those of
\* the tasks created so far, and one more.
CallKeys == {key \in Keys : key = 1 \/ \E t \in 1..next_id : task_key[t] = key - 1}

AddDownloadWithPolicy(key, policy) ==
    /\ manager = "TaskQueueManager"
    /\ \E existing \in find_duplicate_task(Self, key) :
          LET y == add_download_with_policy(Self, policy, existing, next_id + 1)
          IN  Install(y, {}) /\ Admit(key, y.ret = "NewTask", all_tasks[existing])
    /\ UNCHANGED <<event_handlers, pc, loc, calls, manager, aria2, repository,
                   task_mapping, evVars, shutVars, asideVars>>

\* The other operations of TaskQueueManager, on the tasks so created.
QueueOperation(task_id) ==
    /\ manager = "TaskQueueManager"
    /\ \/ PauseTask(task_id)
       \/ ResumeTask(task_id)
       \/ CancelTask(task_id)
       \/ CompleteTask(task_id)
       \/ FailTask(task_id)

(* PersistentAria2Manager.  Its adapter (Aria2DownloadManager) and its      *)
(* repository (DownloadRepository) are other crates; of the adapter the     *)
(* model keeps the status of each task it holds, of the repository the      *)
(* status of each task stored.  A stored task that the adapter does not     *)
(* hold comes from a cancel whose delete_task failed.  The field saves is   *)
(* whether the repository's save_task succeeds when the handler calls it.   *)

PSelf == [aria2 |-> aria2, repository |-> repository, task_mapping |-> task_mapping,
          saves |-> TRUE, ret |-> "Ok", id |-> UnknownId]

\* The manager, with the repository accepting the handler's save_task or not.
PSelfWhen(saved) == [PSelf EXCEPT !.saves = saved]

\* PersistentAria2Manager::list_tasks, as the ids of the tasks listed
list_tasks(z) == {t \in TaskIds : z.aria2[t] # NoTask}

\* PersistentAria2Manager::get_task, NoTask standing for the error
get_task(z, task_id) == z.aria2[task_id]

\* repository.save_task(&task), task being the adapter's get_task(task_id)
save_task(z, task_id) ==
    IF z.aria2[task_id] # NoTask
    THEN [z EXCEPT !.repository[task_id] = z.aria2[task_id]]
    ELSE z

\* Aria2DownloadManager::add_download; status is where the adapter puts the task
Aria2_add_download(z, task_id, status) == [z EXCEPT !.aria2[task_id] = status]

\* Aria2DownloadManager::pause_download
Aria2_pause_download(z, task_id) ==
    IF z.aria2[task_id] # NoTask /\ can_pause(z.aria2[task_id])
    THEN [z EXCEPT !.aria2[task_id] = "Paused"]
    ELSE [z EXCEPT !.ret = "Err"]

\* Aria2DownloadManager::resume_download
Aria2_resume_download(z, task_id, status) ==
    IF z.aria2[task_id] # NoTask /\ can_resume(z.aria2[task_id])
    THEN [z EXCEPT !.aria2[task_id] = status]
    ELSE [z EXCEPT !.ret = "Err"]

\* Aria2DownloadManager::cancel_download
Aria2_cancel_download(z, task_id) ==
    IF z.aria2[task_id] # NoTask
    THEN [z EXCEPT !.aria2[task_id] = NoTask]
    ELSE [z EXCEPT !.ret = "Err"]

\* PersistentAria2Manager::get_gid_for_task: the task id as a string, when the
\* adapter holds the task
get_gid_for_task(z, task_id) == IF z.aria2[task_id] # NoTask THEN task_id ELSE UnknownId

\* PersistentAria2Manager::store_task_mapping
store_task_mapping(z, task_id, gid) == [z EXCEPT !.task_mapping[task_id] = gid]

\* PersistentAria2Manager::remove_task_mapping
remove_task_mapping(z, task_id) == [z EXCEPT !.task_mapping[task_id] = UnknownId]

\* PersistentAria2Manager::create_new_download
create_new_download(z, task_id, status) ==
    LET z1 == Aria2_add_download(z, task_id, status)
        z2 == save_task(z1, task_id)
    IN  IF ~z.saves THEN [z1 EXCEPT !.ret = "Err"]
        ELSE store_task_mapping(z2, task_id, get_gid_for_task(z2, task_id))

\* PersistentAria2Manager::pause_download
pause_download(z, task_id) ==
    LET z1 == Aria2_pause_download(z, task_id)
    IN  IF z1.ret = "Err" \/ ~z.saves THEN z1 ELSE save_task(z1, task_id)

\* PersistentAria2Manager::resume_download
resume_download(z, task_id, status) ==
    LET z1 == Aria2_resume_download(z, task_id, status)
    IN  IF z1.ret = "Err" \/ ~z.saves THEN z1 ELSE save_task(z1, task_id)

\* PersistentAria2Manager::cancel_download; deleted is whether delete_task succeeded
cancel_download(z, task_id, deleted) ==
    LET z1 == Aria2_cancel_download(z, task_id)
    IN  IF z1.ret = "Err" THEN z1
        ELSE remove_task_mapping(IF deleted
                                 THEN [z1 EXCEPT !.repository[task_id] = NoTask]
                                 ELSE z1, task_id)

\* PersistentAria2Manager::find_duplicate_task: the adapter's list first, the
\* repository's list when the adapter has no match; the first match of each.
Persistent_find_duplicate_task(z, key) ==
    LET held == {t \in TaskIds : z.aria2[t] # NoTask /\ SameUrlAndPath(task_key[t], key)}
        stored == {t \in TaskIds : z.repository[t] # NoTask
                                   /\ SameUrlAndPath(task_key[t], key)}
    IN  IF held # {} THEN held
        ELSE IF stored # {} THEN stored
        ELSE {UnknownId}

\* PersistentAria2Manager::add_download_with_policy.  (Its branch "task not
\* found anywhere" needs get_task to fail, in the adapter and in the
\* repository, on a task one of them has just listed.)
Persistent_add_download_with_policy(z, policy, existing, task_id, status) ==
    LET task_status == from_download_status(
                           IF z.aria2[existing] # NoTask THEN z.aria2[existing]
                           ELSE z.repository[existing])
    IN  IF existing # UnknownId /\ allows_reuse(policy, task_status)
        THEN [(IF task_status \in {"Paused", "Failed"}
               THEN resume_download(z, existing, status)
               ELSE z) EXCEPT !.ret = "ExistingTask", !.id = existing]
        ELSE IF existing # UnknownId /\ should_fail_on_duplicate(policy)
        THEN [z EXCEPT !.ret = "PolicyViolation", !.id = existing]
        ELSE LET created == create_new_download(z, task_id, status)
             IN  IF created.ret = "Err" THEN created
                 ELSE [created EXCEPT !.ret = "NewTask", !.id = task_id]

PInstall(z) ==
    /\ aria2' = z.aria2
    /\ repository' = z.repository
    /\ task_mapping' = z.task_mapping

PersistentUnchanged ==
    UNCHANGED <<all_tasks, active_tasks, queued_tasks, event_handlers, pending,
                pc, loc, calls, manager, evVars, shutVars, asideVars>>

\* Where the adapter puts a task it adds or resumes.
AdmittedStatus == {"Waiting", "Downloading"}

\* saved: whether the repository accepts the save_task of the call
PersistentAddDownloadWithPolicy(key, policy, saved) ==
    /\ manager = "PersistentAria2Manager" /\ running
    /\ \E existing \in Persistent_find_duplicate_task(PSelf, key), status \in AdmittedStatus :
          LET z == Persistent_add_download_with_policy(PSelfWhen(saved), policy, existing,
                                                       next_id + 1, status)
          IN  PInstall(z) /\ Admit(key, z.aria2[next_id + 1] # NoTask,
                                    IF aria2[existing] # NoTask THEN aria2[existing]
                                    ELSE repository[existing])
    /\ PersistentUnchanged

PersistentPauseDownload(task_id, saved) ==
    /\ manager = "PersistentAria2Manager" /\ running
    /\ PInstall(pause_download(PSelfWhen(saved), task_id))
    /\ PersistentUnchanged
    /\ UNCHANGED <<next_id, task_key, policies, duplicate_met, resubmitted, running>>

PersistentResumeDownload(task_id, saved) ==
    /\ manager = "PersistentAria2Manager" /\ running
    /\ \E status \in AdmittedStatus :
          PInstall(resume_download(PSelfWhen(saved), task_id, status))
    /\ PersistentUnchanged
    /\ UNCHANGED <<next_id, task_key, policies, duplicate_met, resubmitted, running>>

PersistentCancelDownload(task_id) ==
    /\ manager = "PersistentAria2Manager" /\ running
    /\ \E deleted \in BOOLEAN : PInstall(cancel_download(PSelf, task_id, deleted))
    /\ PersistentUnchanged
    /\ UNCHANGED <<next_id, task_key, policies, duplicate_met, resubmitted, running>>

\* The adapter's own progress: a waiting task starts, a transfer ends.
Aria2Progress(task_id) ==
    /\ manager = "PersistentAria2Manager" /\ running
    /\ \/ aria2[task_id] = "Waiting" /\ aria2' = [aria2 EXCEPT ![task_id] = "Downloading"]
       \/ aria2[task_id] = "Downloading" /\ aria2' = [aria2 EXCEPT ![task_id] = "Completed"]
       \/ aria2[task_id] = "Downloading" /\ aria2' = [aria2 EXCEPT ![task_id] = "Failed"]
    /\ PersistentUnchanged
    /\ UNCHANGED <<repository, next_id, task_key, policies, duplicate_met, recVars>>

\* One tick of the persistence poller: save_task for every id of task_mapping
\* that the adapter holds a task under.
PollerTick ==
    /\ manager = "PersistentAria2Manager" /\ running
    /\ repository' = [t \in AllIds |-> IF task_mapping[t] # UnknownId /\ aria2[t] # NoTask
                                       THEN aria2[t]
                                       ELSE repository[t]]
    /\ PersistentUnchanged
    /\ UNCHANGED <<aria2, next_id, task_key, policies, duplicate_met, recVars>>

\* The sets of policies the callers keep to: the two that never admit a
\* second task, each alone and together, PromptUser alone, all but
\* AllowDuplicate, all.
PolicySets == {{"ReuseExisting"}, {"FailIfDuplicate"},
               {"ReuseExisting", "FailIfDuplicate"},
               {"PromptUser"},
               DuplicatePolicy \ {"AllowDuplicate"},
               DuplicatePolicy}

InitDup ==
    /\ all_tasks = [t \in AllIds |-> NoTask]
    /\ active_tasks = {}
    /\ queued_tasks = <<>>
    /\ task_key = [t \in TaskIds |-> 0]
    /\ next_id = 0
    /\ event_handlers = 0
    /\ pending = <<>>
    /\ pc = [p \in Procs |-> "idle"]
    /\ loc = [p \in Procs |-> UnknownId]
    /\ calls = 0
    /\ manager \in {"TaskQueueManager", "PersistentAria2Manager"}
    /\ aria2 = [t \in AllIds |-> NoTask]
    /\ repository = [t \in AllIds |-> NoTask]
    /\ policies \in PolicySets
    /\ duplicate_met = FALSE
    /\ task_mapping = [t \in AllIds |-> UnknownId]
    /\ resubmitted = {}
    /\ running = TRUE
    /\ applied = <<>>
    /\ emitted = <<>>
    /\ unsent = [p \in Procs |-> <<>>]
    /\ poller = "select"
    /\ ids = <<>>
    /\ permit = FALSE
    /\ persistence_handle = TRUE
    /\ caller = "idle"
    /\ flush = <<>>
    /\ mid_iteration = FALSE
    /\ InitAside

NextDup ==
    \/ \E key \in CallKeys, policy \in policies : AddDownloadWithPolicy(key, policy)
    \/ \E task_id \in KnownIds : QueueOperation(task_id)
    \/ \E key \in CallKeys, policy \in policies :
          PersistentAddDownloadWithPolicy(key, policy, TRUE)
    \/ \E task_id \in KnownIds : PersistentPauseDownload(task_id, TRUE)
    \/ \E task_id \in KnownIds : PersistentResumeDownload(task_id, TRUE)
    \/ \E task_id \in KnownIds : PersistentCancelDownload(task_id)
    \/ \E task_id \in KnownIds : Aria2Progress(task_id)
    \/ PollerTick

SpecDup == InitDup /\ [][NextDup]_vars

---------------------------------------------------------------------------
(* SpecPersistentConc: add_download calls of PersistentAria2Manager for one *)
(* (url, target path), issued by several callers and interleaved at their   *)
(* awaits.  No lock is held from find_duplicate_task to the end of          *)
(* create_new_download.                                                     *)

\* The (url, target path) all the callers name.
SharedKey == CHOOSE key \in Keys : \A k \in Keys : key <= k

PersistentConcUnchanged ==
    UNCHANGED <<all_tasks, active_tasks, queued_tasks, event_handlers, pending, calls,
                manager, policies, duplicate_met, resubmitted, running,
                applied, emitted, unsent, shutVars, asideVars>>

\* add_download -> add_download_with_policy(default) -> find_duplicate_task
BeginAddDownload(p) ==
    /\ pc[p] \in {"idle", "done"}
    /\ next_id < MaxDupTasks
    /\ Goto(p, "list_aria2", UnknownId)
    /\ UNCHANGED <<aria2, repository, task_mapping, next_id, task_key>>
    /\ PersistentConcUnchanged

\* find_duplicate_task: the adapter's list_tasks and the search in it
FindInAria2(p) ==
    /\ pc[p] = "list_aria2"
    /\ LET held == {t \in TaskIds : aria2[t] # NoTask /\ SameUrlAndPath(task_key[t], SharedKey)}
       IN  IF held # {}
           THEN \E existing \in held : Goto(p, "get_task", existing)
           ELSE Goto(p, "list_repository", UnknownId)
    /\ UNCHANGED <<aria2, repository, task_mapping, next_id, task_key>>
    /\ PersistentConcUnchanged

\* find_duplicate_task: the repository's list_tasks and the search in it
FindInRepository(p) ==
    /\ pc[p] = "list_repository"
    /\ LET stored == {t \in TaskIds : repository[t] # NoTask
                                     /\ SameUrlAndPath(task_key[t], SharedKey)}
       IN  IF stored # {}
           THEN \E existing \in stored : Goto(p, "get_task", existing)
           ELSE Goto(p, "add_download", UnknownId)
    /\ UNCHANGED <<aria2, repository, task_mapping, next_id, task_key>>
    /\ PersistentConcUnchanged

\* add_download_with_policy: get_task of the task found, and the decision
\* under ReuseExisting
ReuseFound(p) ==
    /\ pc[p] = "get_task"
    /\ LET status == IF aria2[loc[p]] # NoTask THEN aria2[loc[p]] ELSE repository[loc[p]]
       IN  IF status = NoTask THEN Goto(p, "add_download", UnknownId)
           ELSE IF from_download_status(status) \in {"Paused", "Failed"}
           THEN Goto(p, "resume_download", loc[p])
           ELSE Goto(p, "done", loc[p])
    /\ UNCHANGED <<aria2, repository, task_mapping, next_id, task_key>>
    /\ PersistentConcUnchanged

\* add_download_with_policy: resume_download of the task found, its result dropped
ResumeFound(p) ==
    /\ pc[p] = "resume_download"
    /\ \E status \in AdmittedStatus : PInstall(resume_download(PSelf, loc[p], status))
    /\ Goto(p, "done", loc[p])
    /\ UNCHANGED <<next_id, task_key>>
    /\ PersistentConcUnchanged

\* create_new_download: the adapter's add_download
CreateInAria2(p) ==
    /\ pc[p] = "add_download"
    /\ \E status \in AdmittedStatus :
          PInstall(Aria2_add_download(PSelf, next_id + 1, status))
    /\ next_id' = next_id + 1
    /\ task_key' = [task_key EXCEPT ![next_id + 1] = SharedKey]
    /\ Goto(p, "save_task", next_id + 1)
    /\ PersistentConcUnchanged

\* create_new_download: get_task, save_task and the GID mapping
CreateSave(p) ==
    /\ pc[p] = "save_task"
    /\ LET z1 == save_task(PSelf, loc[p])
       IN  PInstall(store_task_mapping(z1, loc[p], get_gid_for_task(z1, loc[p])))
    /\ Goto(p, "done", loc[p])
    /\ UNCHANGED <<next_id, task_key>>
    /\ PersistentConcUnchanged

InitPersistentConc ==
    /\ InitDup
    /\ manager = "PersistentAria2Manager"
    /\ policies = {"ReuseExisting"}

NextPersistentConc ==
    \/ \E p \in Procs : BeginAddDownload(p)
    \/ \E p \in Procs : FindInAria2(p)
    \/ \E p \in Procs : FindInRepository(p)
    \/ \E p \in Procs : ReuseFound(p)
    \/ \E p \in Procs : ResumeFound(p)
    \/ \E p \in Procs : CreateInAria2(p)
    \/ \E p \in Procs : CreateSave(p)
    \/ \E task_id \in KnownIds : Aria2Progress(task_id)

SpecPersistentConc == InitPersistentConc /\ [][NextPersistentConc]_vars

---------------------------------------------------------------------------
(* SpecRecovery: PersistentAria2Manager over process exits.  The adapter,   *)
(* the id -> GID map and the poller live in the process; the repository     *)
(* outlives it.  A new process starts with an adapter that holds no task.   *)

\* How a restore_single_task call can end: the adapter accepts the task (and
\* the pause, for a task stored Paused), or its add_download fails, or its
\* pause_download fails after the add.
RestoreOutcome == {"Ok", "AddFailed", "PauseFailed"}

\* A restore that submits the task and leaves it as the adapter admits it.
restore_single_task_unpaused(z, task_status, restored_id, outcome, status) ==
    IF outcome = "AddFailed" THEN [z EXCEPT !.ret = "Err"]
    ELSE LET z1 == Aria2_add_download(z, restored_id, status)
         IN  [z1 EXCEPT !.ret = "Ok", !.id = get_gid_for_task(z1, restored_id)]

\* PersistentAria2Manager::restore_single_task; z.id is the GID on success
restore_single_task(z, task_status, restored_id, outcome, status) ==
    IF outcome = "AddFailed" THEN [z EXCEPT !.ret = "Err"]
    ELSE LET z1 == Aria2_add_download(z, restored_id, status)
             gid == get_gid_for_task(z1, restored_id)
         IN  IF task_status # "Paused" THEN [z1 EXCEPT !.ret = "Ok", !.id = gid]
             ELSE IF outcome = "PauseFailed" THEN [z1 EXCEPT !.ret = "Err"]
             ELSE [Aria2_pause_download(z1, restored_id) EXCEPT !.id = gid]

\* Whether the adapter's add_download of the restore_single_task call
\* succeeds, and so draws a task id.
DrawsId(outcome) == outcome # "AddFailed"

\* The body of the loop of restore_tasks for the stored task task_id;
\* outcomes[task_id] is how its restore_single_task ends, saved[task_id]
\* whether the save_task of the failed task succeeds
restore_task(z, task_id, outcomes, saved, status) ==
    LET task_status == z.repository[task_id]
    IN  IF task_status = NoTask \/ is_finished(task_status) THEN z
        ELSE LET restored_id == z.fresh + 1
                 outcome == outcomes[task_id]
                 z1 == restore_single_task([z EXCEPT !.ret = "Ok"], task_status,
                                           restored_id, outcome, status)
                 z2 == IF DrawsId(outcome)
                       THEN [z1 EXCEPT !.fresh = restored_id,
                                       !.keys[restored_id] = z.keys[task_id],
                                       !.resubmitted = @ \cup {task_id}]
                       ELSE z1
             IN  IF z2.ret = "Ok" THEN store_task_mapping(z2, task_id, z2.id)
                 ELSE IF saved[task_id] THEN [z2 EXCEPT !.repository[task_id] = "Failed"]
                 ELSE z2

\* PersistentAria2Manager::restore_tasks, over the stored tasks from task_id on
RECURSIVE restore_tasks(_, _, _, _, _)
restore_tasks(z, task_id, outcomes, saved, status) ==
    IF task_id > MaxTasks THEN z
    ELSE restore_tasks(restore_task(z, task_id, outcomes, saved, status),
                       task_id + 1, outcomes, saved, status)

\* PersistentAria2Manager::save_all_tasks
save_all_tasks(z) ==
    [z EXCEPT !.repository = [t \in AllIds |-> IF z.aria2[t] # NoTask THEN z.aria2[t]
                                                ELSE z.repository[t]]]

RecoveryUnchanged ==
    UNCHANGED <<all_tasks, active_tasks, queued_tasks, event_handlers, pending,
                pc, loc, calls, manager, policies, duplicate_met, evVars,
                shutVars, asideVars>>

\* The process ends: the adapter's tasks and the map are gone with it.
ProcessExit ==
    /\ aria2' = [t \in AllIds |-> NoTask]
    /\ task_mapping' = [t \in AllIds |-> UnknownId]
    /\ running' = FALSE
    /\ UNCHANGED <<next_id, task_key, resubmitted>>
    /\ RecoveryUnchanged

\* PersistentAria2Manager::shutdown, and the end of the process
Shutdown ==
    /\ manager = "PersistentAria2Manager" /\ running
    /\ repository' = save_all_tasks(PSelf).repository
    /\ ProcessExit

\* The process ends without shutdown.
Crash ==
    /\ manager = "PersistentAria2Manager" /\ running
    /\ UNCHANGED repository
    /\ ProcessExit

\* The stored tasks restore_tasks does not skip.
Restorable ==
    {t \in TaskIds : repository[t] # NoTask /\ ~is_finished(repository[t])}

\* PersistentAria2Manager::new_with_config on the repository left behind
Startup ==
    /\ manager = "PersistentAria2Manager" /\ ~running
    /\ next_id + Cardinality(Restorable) <= MaxRestored
    /\ \E outcomes \in [Restorable -> RestoreOutcome], saved \in [Restorable -> BOOLEAN],
          status \in AdmittedStatus :
          LET z == restore_tasks([PSelf EXCEPT !.ret = "Ok"] @@
                                 [fresh |-> next_id, keys |-> task_key, resubmitted |-> {}],
                                 1, outcomes, saved, status)
          IN  /\ PInstall(z)
              /\ next_id' = z.fresh
              /\ task_key' = z.keys
              /\ resubmitted' = z.resubmitted
    /\ running' = TRUE
    /\ RecoveryUnchanged

InitRecovery ==
    /\ InitDup
    /\ manager = "PersistentAria2Manager"
    /\ policies = {"ReuseExisting"}

NextRecovery ==
    \/ \E key \in CallKeys, policy \in policies, saved \in BOOLEAN :
          PersistentAddDownloadWithPolicy(key, policy, saved)
    \/ \E task_id \in KnownIds, saved \in BOOLEAN : PersistentPauseDownload(task_id, saved)
    \/ \E task_id \in KnownIds, saved \in BOOLEAN : PersistentResumeDownload(task_id, saved)
    \/ \E task_id \in KnownIds : PersistentCancelDownload(task_id)
    \/ \E task_id \in KnownIds : Aria2Progress(task_id)
    \/ PollerTick
    \/ Shutdown
    \/ Crash
    \/ Startup

SpecRecovery == InitRecovery /\ [][NextRecovery]_vars

\* SpecRecovery with the poller's ticker running: interval() fires every
\* STATUS_POLL_INTERVAL_SECS for as long as the process is up.
SpecRecoveryFair == SpecRecovery /\ WF_vars(PollerTick)

---------------------------------------------------------------------------
(* SpecShutdown: the persistence poller and shutdown(), call by call.  A    *)
(* step of the poller or of shutdown() ends at an .await on the adapter or  *)
(* on the repository; the step that follows is the answer to that call.     *)
(* The callers of the manager and the adapter go on as in SpecRecovery.     *)

ShutdownUnchanged ==
    UNCHANGED <<all_tasks, active_tasks, queued_tasks, task_key, next_id,
                event_handlers, pending, pc, loc, calls, manager, policies,
                duplicate_met, recVars, evVars, urlVars, progVars, lockVars>>

\* The ids in a set, as the sequence a for loop goes through.
RECURSIVE Listed(_)
Listed(S) ==
    IF S = {} THEN <<>>
    ELSE LET t == CHOOSE m \in S : \A n \in S : m <= n
         IN  <<t>> \o Listed(S \ {t})

\* The for loop of the poller goes to the next id, or the iteration is over
\* and the loop is back at select!.
PollerNext(rest) == IF rest = <<>> THEN "select" ELSE "get_task"

\* select!: ticker.tick() is taken; mapping.keys().cloned().collect()
TickerFires ==
    /\ poller = "select"
    /\ ids' = Listed({t \in TaskIds : task_mapping[t] # UnknownId})
    /\ poller' = PollerNext(ids')
    /\ UNCHANGED <<aria2, repository, permit, persistence_handle, caller, flush,
                   mid_iteration, pollVars>>
    /\ ShutdownUnchanged

\* The adapter answers get_task(&*aria2, task_id): Ok(current_task) goes on to
\* save_task, Err to the next id.
PollerGetTask ==
    /\ poller = "get_task"
    /\ current_task' = get_task(PSelf, Head(ids))
    /\ IF current_task' # NoTask
       THEN poller' = "save_task" /\ UNCHANGED ids
       ELSE ids' = Tail(ids) /\ poller' = PollerNext(ids')
    /\ UNCHANGED <<aria2, repository, permit, persistence_handle, caller, flush,
                   mid_iteration, cancel_returned>>
    /\ ShutdownUnchanged

\* The repository answers save_task(&current_task): an Err is logged.
PollerSaveTask(saved) ==
    /\ poller = "save_task"
    /\ repository' = IF saved
                     THEN [repository EXCEPT ![Head(ids)] = current_task]
                     ELSE repository
    /\ ids' = Tail(ids)
    /\ poller' = PollerNext(ids')
    /\ UNCHANGED <<aria2, permit, persistence_handle, caller, flush, mid_iteration,
                   pollVars>>
    /\ ShutdownUnchanged

\* select!: shutdown.notified() is taken, the loop breaks and the task ends
PollerStops ==
    /\ poller = "select" /\ permit
    /\ permit' = FALSE
    /\ poller' = "stopped"
    /\ UNCHANGED <<aria2, repository, ids, persistence_handle, caller, flush,
                   mid_iteration, pollVars>>
    /\ ShutdownUnchanged

\* A handle that is ready whatever the poller's task does.
JoinHandleDetached == TRUE

\* handle.await is over when the poller's task has ended
JoinHandleReady == poller = "stopped"

\* shutdown(): self.shutdown.notify_one(); self.persistence_handle.write().await.take()
ShutdownCall ==
    /\ caller = "idle"
    /\ permit' = TRUE
    /\ persistence_handle' = FALSE
    /\ caller' = IF persistence_handle THEN "await_handle" ELSE "list_tasks"
    /\ mid_iteration' = (mid_iteration \/ poller \in {"get_task", "save_task"})
    /\ UNCHANGED <<aria2, repository, poller, ids, flush, pollVars>>
    /\ ShutdownUnchanged

\* shutdown(): let _ = handle.await
ShutdownJoined ==
    /\ caller = "await_handle" /\ JoinHandleReady
    /\ caller' = "list_tasks"
    /\ UNCHANGED <<aria2, repository, poller, ids, permit, persistence_handle, flush,
                   mid_iteration, pollVars>>
    /\ ShutdownUnchanged

\* save_all_tasks: the adapter answers list_tasks(&*self.aria2) with the
\* tasks as they are then, each kept here as <<id, status>>
FlushListTasks ==
    /\ caller = "list_tasks"
    /\ flush' = LET listed == Listed(list_tasks(PSelf))
                IN  [i \in 1..Len(listed) |-> <<listed[i], get_task(PSelf, listed[i])>>]
    /\ caller' = IF flush' = <<>> THEN "done" ELSE "save_task"
    /\ UNCHANGED <<aria2, repository, poller, ids, permit, persistence_handle,
                   mid_iteration, pollVars>>
    /\ ShutdownUnchanged

\* save_all_tasks: the repository answers save_task(&task); an Err is logged.
\* After the last task shutdown() returns Ok.
FlushSaveTask(saved) ==
    /\ caller = "save_task"
    /\ repository' = IF saved
                     THEN [repository EXCEPT ![Head(flush)[1]] = Head(flush)[2]]
                     ELSE repository
    /\ flush' = Tail(flush)
    /\ caller' = IF flush' = <<>> THEN "done" ELSE "save_task"
    /\ UNCHANGED <<aria2, poller, ids, permit, persistence_handle, mid_iteration,
                   pollVars>>
    /\ ShutdownUnchanged

\* The caller has its Result and may call shutdown() again.
ShutdownReturned ==
    /\ caller = "done"
    /\ caller' = "idle"
    /\ UNCHANGED <<aria2, repository, poller, ids, permit, persistence_handle, flush,
                   mid_iteration, pollVars>>
    /\ ShutdownUnchanged

\* cancel_download(task_id) of a caller, returning between two steps of the
\* poller; deleted is whether delete_task succeeded.
PollerCancelDownload(task_id, deleted) ==
    /\ manager = "PersistentAria2Manager" /\ running
    /\ LET z == cancel_download(PSelf, task_id, deleted)
       IN  /\ PInstall(z)
           /\ cancel_returned' = IF z.ret = "Ok" THEN cancel_returned \cup {task_id}
                                ELSE cancel_returned
    /\ UNCHANGED <<all_tasks, active_tasks, queued_tasks, task_key, next_id,
                   event_handlers, pending, pc, loc, calls, manager, policies,
                   duplicate_met, resubmitted, running, evVars, shutVars, urlVars,
                   progVars, lockVars, current_task>>

InitShutdown == InitRecovery

NextShutdown ==
    \/ \E key \in CallKeys, policy \in policies :
          PersistentAddDownloadWithPolicy(key, policy, TRUE)
    \/ \E task_id \in KnownIds : Aria2Progress(task_id)
    \/ \E task_id \in KnownIds : PollerCancelDownload(task_id, TRUE)
    \/ TickerFires
    \/ PollerGetTask
    \/ \E saved \in BOOLEAN : PollerSaveTask(saved)
    \/ PollerStops
    \/ ShutdownCall
    \/ ShutdownJoined
    \/ FlushListTasks
    \/ \E saved \in BOOLEAN : FlushSaveTask(saved)
    \/ ShutdownReturned

SpecShutdown == InitShutdown /\ [][NextShutdown]_vars

\* SpecShutdown with the scheduling of the runtime: a task that can go on does
\* (the poller sees the permit at a select!, the caller of shutdown() is woken
\* when the handle is ready).  The answers of the adapter and of the
\* repository are theirs to give: nothing says that one comes.
SpecShutdownFair ==
    SpecShutdown /\ SF_vars(PollerStops) /\ WF_vars(ShutdownJoined)

---------------------------------------------------------------------------
(* SpecUrl: normalize_url, applied to a url and then to what it returned.   *)
(* The urls are http(s) urls with or without a port, a fragment and a       *)
(* query; the query strings are made of up to MaxUnits of the pieces        *)
(* a, &, =, +, %26 and %3D.                                                 *)

MaxUnits == 3

MaxApplications == 2

Units == {<<97>>, <<38>>, <<61>>, <<43>>, <<37, 50, 54>>, <<37, 51, 68>>}

RECURSIVE QueryStrings(_)
QueryStrings(n) ==
    IF n = 0 THEN {<<>>}
    ELSE LET shorter == QueryStrings(n - 1)
         IN  shorter \cup {q \o u : q \in shorter, u \in Units}

Urls ==
    [scheme : {"http", "https"},
     port : {{}, {80}, {443}},
     query : {{}} \cup {{q} : q \in QueryStrings(MaxUnits)},
     fragment : {{}, {"section"}}]

\* normalize_url(raw_url), then normalize_url of the String it returned
NormalizeUrl ==
    /\ Len(normalized) < MaxApplications
    /\ normalized' = Append(normalized,
                            normalize_url(IF normalized = <<>> THEN raw_url
                                          ELSE normalized[Len(normalized)]))
    /\ UNCHANGED <<all_tasks, active_tasks, queued_tasks, task_key, next_id,
                   event_handlers, pending, pc, loc, calls, manager, aria2, repository,
                   policies, duplicate_met, recVars, evVars, shutVars, raw_url,
                   progVars, pollVars, lockVars>>

InitUrl ==
    /\ all_tasks = [t \in AllIds |-> NoTask]
    /\ active_tasks = {}
    /\ queued_tasks = <<>>
    /\ task_key = [t \in TaskIds |-> 0]
    /\ next_id = 0
    /\ event_handlers = 0
    /\ pending = <<>>
    /\ pc = [p \in Procs |-> "idle"]
    /\ loc = [p \in Procs |-> UnknownId]
    /\ calls = 0
    /\ manager = "TaskQueueManager"
    /\ aria2 = [t \in AllIds |-> NoTask]
    /\ repository = [t \in AllIds |-> NoTask]
    /\ policies = DuplicatePolicy
    /\ duplicate_met = FALSE
    /\ task_mapping = [t \in AllIds |-> UnknownId]
    /\ resubmitted = {}
    /\ running = TRUE
    /\ applied = <<>>
    /\ emitted = <<>>
    /\ unsent = [p \in Procs |-> <<>>]
    /\ poller = "select"
    /\ ids = <<>>
    /\ permit = FALSE
    /\ persistence_handle = TRUE
    /\ caller = "idle"
    /\ flush = <<>>
    /\ mid_iteration = FALSE
    /\ raw_url \in Urls
    /\ normalized = <<>>
    /\ progress = [t \in AllIds |-> {}]
    /\ basic_tasks = [t \in AllIds |-> NoTask]
    /\ basic_progress = [t \in AllIds |-> {}]
    /\ mock_data = [t \in AllIds |-> {}]
    /\ now = 0
    /\ observed = [t \in AllIds |-> {}]
    /\ current_task = NoTask
    /\ cancel_returned = {}
    /\ awaiting = [p \in Procs |-> <<>>]
    /\ guards = [p \in Procs |-> {}]
    /\ waiters = [lk \in LockNames |-> <<>>]

NextUrl == NormalizeUrl

SpecUrl == InitUrl /\ [][NextUrl]_vars

---------------------------------------------------------------------------
(* SpecProgress: the progress of a task, as TaskQueueManager keeps what     *)
(* update_progress gives it and as BasicDownloadManager                     *)
(* (src/src/manager/basic.rs) computes it from the time a mock download has *)
(* run.  One of the two managers is in use; the clock advances by one       *)
(* second or by ten.                                                        *)

MaxProgressTasks == 1

MaxBytes == 2

MaxClock == 12

\* start_mock_download: total_size, download_speed
total_size == 10 * 1024 * 1024

download_speed == 1024 * 1024

Min(a, b) == IF a < b THEN a ELSE b

\* One value of an Option kept as a set.
The(option) == CHOOSE v \in option : TRUE

ProgressUnchanged ==
    UNCHANGED <<event_handlers, pending, pc, loc, calls, manager, aria2, repository,
                policies, duplicate_met, recVars, evVars, shutVars, urlVars,
                pollVars, lockVars>>

TaskQueueUnchanged == UNCHANGED <<all_tasks, active_tasks, queued_tasks, task_key>>

\* TaskQueueManager::add_task
ProgressAddTask ==
    /\ manager = "TaskQueueManager"
    /\ next_id < MaxProgressTasks
    /\ AddTask(1)

\* TaskQueueManager::update_progress
UpdateProgress(task_id, downloaded_bytes) ==
    /\ manager = "TaskQueueManager"
    /\ all_tasks[task_id] # NoTask
    /\ progress' = [progress EXCEPT ![task_id] = {downloaded_bytes}]
    /\ UNCHANGED <<next_id, basic_tasks, basic_progress, mock_data, now, observed>>
    /\ TaskQueueUnchanged
    /\ ProgressUnchanged

\* TaskQueueManager::get_progress: DownloadProgress::new() for a task that has
\* no entry
GetProgress(task_id) ==
    /\ manager = "TaskQueueManager"
    /\ all_tasks[task_id] # NoTask
    /\ observed' = [observed EXCEPT ![task_id] =
                        IF progress[task_id] = {} THEN {0} ELSE progress[task_id]]
    /\ UNCHANGED <<next_id, progress, basic_tasks, basic_progress, mock_data, now>>
    /\ TaskQueueUnchanged
    /\ ProgressUnchanged

\* BasicDownloadManager, as a record of its three maps.
Basic == [tasks |-> basic_tasks, progress |-> basic_progress, mock_data |-> mock_data,
          ret |-> "Ok"]

BasicInstall(b) ==
    /\ basic_tasks' = b.tasks
    /\ basic_progress' = b.progress
    /\ mock_data' = b.mock_data

\* BasicDownloadManager::start_mock_download
start_mock_download(b, task_id) ==
    [b EXCEPT !.mock_data[task_id] = {now}, !.progress[task_id] = {0}]

\* BasicDownloadManager::update_task_progress
update_task_progress(b, task_id) ==
    IF b.mock_data[task_id] = {} THEN b
    ELSE LET elapsed == now - The(b.mock_data[task_id])
             downloaded_bytes == Min(elapsed * download_speed, total_size)
             b1 == [b EXCEPT !.progress[task_id] = {downloaded_bytes}]
         IN  IF downloaded_bytes >= total_size
             THEN [b1 EXCEPT !.tasks[task_id] = IF @ # NoTask THEN "Completed" ELSE @,
                             !.mock_data[task_id] = {}]
             ELSE b1

\* BasicDownloadManager::add_download
Basic_add_download(b, task_id) ==
    start_mock_download([b EXCEPT !.tasks[task_id] = "Downloading"], task_id)

\* BasicDownloadManager::pause_download
Basic_pause_download(b, task_id) ==
    IF b.tasks[task_id] = NoTask \/ ~can_pause(b.tasks[task_id])
    THEN [b EXCEPT !.ret = "Err"]
    ELSE [b EXCEPT !.tasks[task_id] = "Paused", !.mock_data[task_id] = {}]

\* BasicDownloadManager::resume_download
Basic_resume_download(b, task_id) ==
    IF b.tasks[task_id] = NoTask \/ ~can_resume(b.tasks[task_id])
    THEN [b EXCEPT !.ret = "Err"]
    ELSE start_mock_download([b EXCEPT !.tasks[task_id] = "Downloading"], task_id)

\* BasicDownloadManager::cancel_download
Basic_cancel_download(b, task_id) ==
    [b EXCEPT !.tasks[task_id] = NoTask, !.progress[task_id] = {},
              !.mock_data[task_id] = {}]

\* BasicDownloadManager::get_progress
Basic_get_progress(b, task_id) ==
    LET b1 == update_task_progress(b, task_id)
    IN  IF b1.progress[task_id] = {} THEN [b1 EXCEPT !.ret = "Err"] ELSE b1

BasicCall(b) ==
    /\ manager = "BasicDownloadManager"
    /\ BasicInstall(b)
    /\ UNCHANGED <<progress, now>>
    /\ TaskQueueUnchanged
    /\ ProgressUnchanged

BasicAddDownload ==
    /\ next_id < MaxProgressTasks
    /\ next_id' = next_id + 1
    /\ BasicCall(Basic_add_download(Basic, next_id + 1))
    /\ UNCHANGED observed

BasicPauseDownload(task_id) ==
    /\ BasicCall(Basic_pause_download(Basic, task_id))
    /\ UNCHANGED <<next_id, observed>>

BasicResumeDownload(task_id) ==
    /\ BasicCall(Basic_resume_download(Basic, task_id))
    /\ UNCHANGED <<next_id, observed>>

BasicCancelDownload(task_id) ==
    /\ BasicCall(Basic_cancel_download(Basic, task_id))
    /\ UNCHANGED <<next_id, observed>>

BasicGetProgress(task_id) ==
    LET b == Basic_get_progress(Basic, task_id)
    IN  /\ BasicCall(b)
        /\ observed' = IF b.ret = "Ok" THEN [observed EXCEPT ![task_id] = b.progress[task_id]]
                       ELSE observed
        /\ UNCHANGED next_id

\* BasicDownloadManager::get_task
BasicGetTask(task_id) ==
    /\ BasicCall(update_task_progress(Basic, task_id))
    /\ UNCHANGED <<next_id, observed>>

\* Time passes.
Tick(seconds) ==
    /\ now + seconds <= MaxClock
    /\ now' = now + seconds
    /\ UNCHANGED <<next_id, progress, basic_tasks, basic_progress, mock_data, observed>>
    /\ TaskQueueUnchanged
    /\ ProgressUnchanged

InitProgress ==
    /\ all_tasks = [t \in AllIds |-> NoTask]
    /\ active_tasks = {}
    /\ queued_tasks = <<>>
    /\ task_key = [t \in TaskIds |-> 0]
    /\ next_id = 0
    /\ event_handlers = 0
    /\ pending = <<>>
    /\ pc = [p \in Procs |-> "idle"]
    /\ loc = [p \in Procs |-> UnknownId]
    /\ calls = 0
    /\ manager \in {"TaskQueueManager", "BasicDownloadManager"}
    /\ aria2 = [t \in AllIds |-> NoTask]
    /\ repository = [t \in AllIds |-> NoTask]
    /\ policies = DuplicatePolicy
    /\ duplicate_met = FALSE
    /\ task_mapping = [t \in AllIds |-> UnknownId]
    /\ resubmitted = {}
    /\ running = TRUE
    /\ applied = <<>>
    /\ emitted = <<>>
    /\ unsent = [p \in Procs |-> <<>>]
    /\ poller = "select"
    /\ ids = <<>>
    /\ permit = FALSE
    /\ persistence_handle = TRUE
    /\ caller = "idle"
    /\ flush = <<>>
    /\ mid_iteration = FALSE
    /\ InitAside

NextProgress ==
    \/ ProgressAddTask
    \/ \E task_id \in 1..next_id, downloaded_bytes \in 0..MaxBytes :
          UpdateProgress(task_id, downloaded_bytes)
    \/ \E task_id \in 1..next_id : GetProgress(task_id)
    \/ BasicAddDownload
    \/ \E task_id \in 1..next_id : BasicPauseDownload(task_id)
    \/ \E task_id \in 1..next_id : BasicResumeDownload(task_id)
    \/ \E task_id \in 1..next_id : BasicCancelDownload(task_id)
    \/ \E task_id \in 1..next_id : BasicGetProgress(task_id)
    \/ \E task_id \in 1..next_id : BasicGetTask(task_id)
    \/ \E seconds \in {1, 10} : Tick(seconds)

SpecProgress == InitProgress /\ [][NextProgress]_vars

---------------------------------------------------------------------------
(* SpecLocks: the lock acquisitions of TaskQueueManager.  Of an operation   *)
(* the model keeps the guards it takes and drops and the handlers it calls, *)
(* in the order of the code; what the data decides (a task found or not, a  *)
(* free slot or none, an empty queue or not) is a choice among the paths.   *)
(* tokio's RwLock and Mutex serve their waiters first come first served: a  *)
(* caller that finds the lock taken, or others waiting, queues behind them. *)
(* A handler returns, or calls one operation of the manager and returns.    *)
(* An operation called by a handler notifies handlers that call nothing.    *)

\* A guard that lives for one statement: self.<lk>.read/write/lock().await.<...>
Use(lk, md) == << <<"acq", lk, md>>, <<"rel", lk>> >>

\* A notify_* that calls the handlers with the lock still held.
Locks_notify_holding_lock(handler) ==
    << <<"acq", "event_handlers", "R">>, <<handler>>, <<"rel", "event_handlers">> >>

\* notify_status_changed, and each notify_* as it: the handlers are cloned under the
\* read lock and called after it is released.  handler is "handler" for a
\* call of the caller's operation, "leaf" inside an operation a handler
\* called.
Locks_notify_status_changed(handler) == Use("event_handlers", "R") \o << <<handler>> >>

\* try_start_next_queued_task: no free slot; no task waiting; a promotion
Locks_try_start_next_queued_task(handler) ==
    {Use("active_tasks", "R"),
     Use("active_tasks", "R") \o Use("queued_tasks", "M"),
     Use("active_tasks", "R") \o Use("queued_tasks", "M") \o Use("all_tasks", "W")
         \o Use("active_tasks", "W") \o Locks_notify_status_changed(handler)}

\* add_task: started at once, or queued
Locks_add_task(handler) ==
    {Use("active_tasks", "R") \o Use("active_tasks", "W") \o Use("all_tasks", "W")
         \o Locks_notify_status_changed(handler),
     Use("active_tasks", "R") \o Use("queued_tasks", "M") \o Use("all_tasks", "W")}

\* update_progress: TaskNotFound, or the insert and notify_progress_updated
Locks_update_progress(handler) ==
    {Use("all_tasks", "R"),
     Use("all_tasks", "R") \o Use("progress", "W") \o Locks_notify_status_changed(handler)}

\* get_progress: TaskNotFound, or the read of the progress map
Locks_get_progress == {Use("all_tasks", "R"), Use("all_tasks", "R") \o Use("progress", "R")}

\* pause_task: an early return under the registry's lock, or the whole of it
Locks_pause_task(handler) ==
    {Use("all_tasks", "W")}
    \cup {Use("all_tasks", "W") \o Use("active_tasks", "W") \o promotion
              \o Locks_notify_status_changed(handler) :
          promotion \in Locks_try_start_next_queued_task(handler)}

\* resume_task: an early return, or active_tasks read with the registry's
\* write guard held, then the insert or the push_back with no guard held
Locks_resume_task(handler) ==
    {Use("all_tasks", "W")}
    \cup {<< <<"acq", "all_tasks", "W">> >> \o Use("active_tasks", "R")
              \o << <<"rel", "all_tasks">> >> \o placed \o Locks_notify_status_changed(handler) :
          placed \in {Use("active_tasks", "W"), Use("queued_tasks", "M")}}

\* cancel_task
Locks_cancel_task(handler) ==
    {Use("all_tasks", "W") \o Use("active_tasks", "W") \o Use("queued_tasks", "M")
         \o promotion :
     promotion \in Locks_try_start_next_queued_task(handler)}

\* get_task and list_tasks
Locks_get_task == {Use("all_tasks", "R")}

\* active_download_count
Locks_active_download_count == {Use("active_tasks", "R")}

\* complete_task and fail_task: with the task found, notify_status_changed
\* and notify_download_completed (notify_download_failed)
Locks_complete_task(handler) ==
    {Use("all_tasks", "W") \o Use("active_tasks", "W") \o promotion \o notified :
     promotion \in Locks_try_start_next_queued_task(handler),
     notified \in {<<>>, Locks_notify_status_changed(handler) \o Locks_notify_status_changed(handler)}}

\* add_event_handler
Locks_add_event_handler == {Use("event_handlers", "W")}

\* The operations a caller can call.
Operations(handler) ==
    Locks_add_task(handler) \cup Locks_update_progress(handler) \cup Locks_get_progress
    \cup Locks_pause_task(handler) \cup Locks_resume_task(handler)
    \cup Locks_cancel_task(handler) \cup Locks_get_task \cup Locks_active_download_count
    \cup Locks_complete_task(handler) \cup Locks_add_event_handler

\* The operations a handler calls: between them they take every lock in
\* every mode an operation takes it, and resume_task's guard within a guard.
CallbackOperations ==
    Locks_resume_task("leaf") \cup Locks_update_progress("leaf") \cup Locks_get_progress
    \cup Locks_add_event_handler

\* The callers holding a guard of the lock, in the mode or in any.
Holders(lk, md) == {q \in Procs : <<lk, md>> \in guards[q]}
AnyHolder(lk) == Holders(lk, "R") \cup Holders(lk, "W") \cup Holders(lk, "M")

\* Whether the lock can give a guard of the mode: a read guard beside read
\* guards, a write guard or the mutex's guard alone.
Available(lk, md) == IF md = "R" THEN AnyHolder(lk) = Holders(lk, "R") ELSE AnyHolder(lk) = {}

Queued(p, lk) == \E i \in 1..Len(waiters[lk]) : waiters[lk][i] = p

LocksUnchanged ==
    UNCHANGED <<all_tasks, active_tasks, queued_tasks, task_key, next_id,
                event_handlers, pending, pc, loc, calls, manager, aria2, repository,
                policies, duplicate_met, recVars, evVars, shutVars, urlVars, progVars,
                pollVars>>

\* A caller calls an operation of the manager.
LockCall(p) ==
    /\ awaiting[p] = <<>>
    /\ \E operation \in Operations("handler") : awaiting' = [awaiting EXCEPT ![p] = operation]
    /\ UNCHANGED <<guards, waiters>>
    /\ LocksUnchanged

\* .read().await, .write().await, .lock().await with the lock free and no
\* one waiting: the guard at once
AcquireNow(p) ==
    /\ awaiting[p] # <<>> /\ Head(awaiting[p])[1] = "acq"
    /\ LET lk == Head(awaiting[p])[2]
           md == Head(awaiting[p])[3]
       IN  /\ waiters[lk] = <<>> /\ Available(lk, md)
           /\ guards' = [guards EXCEPT ![p] = @ \cup {<<lk, md>>}]
           /\ awaiting' = [awaiting EXCEPT ![p] = Tail(@)]
    /\ UNCHANGED waiters
    /\ LocksUnchanged

\* ... otherwise the caller joins the lock's queue
Enqueue(p) ==
    /\ awaiting[p] # <<>> /\ Head(awaiting[p])[1] = "acq"
    /\ LET lk == Head(awaiting[p])[2]
           md == Head(awaiting[p])[3]
       IN  /\ ~Queued(p, lk)
           /\ ~(waiters[lk] = <<>> /\ Available(lk, md))
           /\ waiters' = [waiters EXCEPT ![lk] = Append(@, p)]
    /\ UNCHANGED <<awaiting, guards>>
    /\ LocksUnchanged

\* ... and has the guard when it is first in the queue and the lock can give it
Granted(p) ==
    /\ awaiting[p] # <<>> /\ Head(awaiting[p])[1] = "acq"
    /\ LET lk == Head(awaiting[p])[2]
           md == Head(awaiting[p])[3]
       IN  /\ waiters[lk] # <<>> /\ Head(waiters[lk]) = p
           /\ Available(lk, md)
           /\ waiters' = [waiters EXCEPT ![lk] = Tail(@)]
           /\ guards' = [guards EXCEPT ![p] = @ \cup {<<lk, md>>}]
           /\ awaiting' = [awaiting EXCEPT ![p] = Tail(@)]
    /\ LocksUnchanged

\* The guard is dropped.
Release(p) ==
    /\ awaiting[p] # <<>> /\ Head(awaiting[p])[1] = "rel"
    /\ guards' = [guards EXCEPT ![p] = {g \in @ : g[1] # Head(awaiting[p])[2]}]
    /\ awaiting' = [awaiting EXCEPT ![p] = Tail(@)]
    /\ UNCHANGED waiters
    /\ LocksUnchanged

\* handler.on_...(...).await of a handler that calls nothing of the manager
HandlerReturns(p) ==
    /\ awaiting[p] # <<>> /\ Head(awaiting[p])[1] \in {"handler", "leaf"}
    /\ awaiting' = [awaiting EXCEPT ![p] = Tail(@)]
    /\ UNCHANGED <<guards, waiters>>
    /\ LocksUnchanged

\* ... and of a handler that calls an operation of the manager: the caller
\* goes through that operation before the rest of its own.
HandlerCallsBack(p) ==
    /\ awaiting[p] # <<>> /\ Head(awaiting[p])[1] = "handler"
    /\ \E operation \in CallbackOperations :
          awaiting' = [awaiting EXCEPT ![p] = operation \o Tail(@)]
    /\ UNCHANGED <<guards, waiters>>
    /\ LocksUnchanged

\* What a caller does once it has called.
LockStep(p) ==
    \/ AcquireNow(p)
    \/ Enqueue(p)
    \/ Granted(p)
    \/ Release(p)
    \/ HandlerReturns(p)
    \/ HandlerCallsBack(p)

InitLocks == Init

NextLocks == \E p \in Procs : LockCall(p) \/ LockStep(p)

SpecLocks == InitLocks /\ [][NextLocks]_vars

\* SpecLocks with the runtime's scheduling: a caller that can go on does.
\* Nothing says that a caller calls.
SpecLocksFair == SpecLocks /\ \A p \in Procs : WF_vars(LockStep(p))

---------------------------------------------------------------------------
(* What the claims speak of *)

\* The calls a caller can make in the current state, and what each does.
Calls ==
    {<<"add_task", next_id + 1>>}
    \cup ({"pause_task", "resume_task", "cancel_task", "complete_task", "fail_task"}
          \X KnownIds)

Result(call) ==
    CASE call[1] = "add_task" -> add_task(Self, call[2])
      [] call[1] = "pause_task" -> pause_task(Self, call[2])
      [] call[1] = "resume_task" -> resume_task(Self, call[2])
      [] call[1] = "cancel_task" -> cancel_task(Self, call[2])
      [] call[1] = "complete_task" -> complete_task(Self, call[2])
      [] call[1] = "fail_task" -> fail_task(Self, call[2])

\* The step taken is this call.
Taken(call) ==
    CASE call[1] = "add_task" -> AddTask(1)
      [] call[1] = "pause_task" -> PauseTask(call[2])
      [] call[1] = "resume_task" -> ResumeTask(call[2])
      [] call[1] = "cancel_task" -> CancelTask(call[2])
      [] call[1] = "complete_task" -> CompleteTask(call[2])
      [] call[1] = "fail_task" -> FailTask(call[2])

\* The calls that free, or may free, a slot of the active set.
ReleaseOps == {"pause_task", "cancel_task", "complete_task", "fail_task"}

\* The transitions of the state machine's table.
TransitionTable ==
    {<<"Waiting", "Downloading">>, <<"Downloading", "Paused">>,
     <<"Downloading", "Completed">>, <<"Downloading", "Failed">>,
     <<"Downloading", "Waiting">>, <<"Paused", "Downloading">>,
     <<"Paused", "Waiting">>, <<"Failed", "Waiting">>, <<"Failed", "Downloading">>}

Count(seq, e) == Cardinality({i \in 1..Len(seq) : seq[i] = e})

\* C2: every status change a call applies to a task of the registry is a
\* transition of the table (a call that sets the status a task already has
\* changes nothing).
C2_OnlyTableTransitions ==
    [][\A call \in Calls : Taken(call) =>
          \A i \in 1..Len(Result(call).muts) :
              LET m == Result(call).muts[i]
              IN  m.old = m.new \/ <<m.old, m.new>> \in TransitionTable]_vars

\* C3: after a pause_task, cancel_task, complete_task or fail_task call has
\* returned, the waiting queue is empty or the active set holds exactly
\* MAX_CONCURRENT_DOWNLOADS tasks.
C3_ReleaseFillsSlots ==
    [][\A call \in Calls : (call[1] \in ReleaseOps /\ Taken(call)) =>
          (queued_tasks' = <<>>
           \/ Cardinality(active_tasks') = MAX_CONCURRENT_DOWNLOADS)]_vars

\* C4: FIFO admission: a task that was appended to the waiting queue becomes
\* Downloading only when no task appended before it (and not cancelled) is
\* still to become Downloading.  (A task started by popping it from the head
\* of the queue is in queue order by construction, whatever stale entries the
\* queue holds; the formula is about the starts that are not pops of the head.)
C4_FifoAdmission ==
    [][\A i \in 1..Len(pending) :
          (/\ pending[i] \notin Range(pending')
           /\ all_tasks'[pending[i]] = "Downloading"
           /\ Head(queued_tasks) # pending[i])
          => \A j \in 1..(i - 1) : pending[j] \notin Range(pending')]_vars

\* C6: no task id is in the active set and in the waiting queue at once, and
\* a Completed or Failed task is in neither.
C6_ActiveQueueDisjointTerminalOut ==
    /\ active_tasks \cap Range(queued_tasks) = {}
    /\ \A t \in TaskIds : is_finished(all_tasks[t]) =>
           t \notin active_tasks \cup Range(queued_tasks)

\* C7: a second cancel_task(id), made right after a first, leaves the registry,
\* the active set and the waiting queue as the first left them.
C7_CancelIdempotent ==
    [][\A task_id \in KnownIds : CancelTask(task_id) =>
          LET again == cancel_task(Self', task_id)
          IN  /\ again.all_tasks = all_tasks'
              /\ again.active_tasks = active_tasks'
              /\ again.queued_tasks = queued_tasks'
              /\ again.ret = "Ok"]_vars

\* C8: when a release call takes a task out of a full active set while the
\* queue is non-empty, the head of the queue becomes Downloading and is in
\* the active set when the call returns, the active set is full again, and
\* every other Waiting task stays Waiting.
C8_ExactlyOnePromotion ==
    [][\A call \in Calls :
          (/\ call[1] \in ReleaseOps
           /\ Taken(call)
           /\ call[2] \in active_tasks
           /\ Cardinality(active_tasks) = MAX_CONCURRENT_DOWNLOADS
           /\ queued_tasks # <<>>)
          => LET head == Head(queued_tasks)
             IN  /\ all_tasks'[head] = "Downloading"
                 /\ head \in active_tasks'
                 /\ Cardinality(active_tasks') = MAX_CONCURRENT_DOWNLOADS
                 /\ \A t \in TaskIds \ {head, call[2]} :
                        all_tasks[t] = "Waiting" => all_tasks'[t] = "Waiting"]_vars

\* C10: every status mutation of a call is delivered exactly once to every
\* registered handler, as StatusChanged(id, old, new) with the registry's
\* status before and after the mutation.
C10_OneEventPerMutation ==
    [][\A call \in Calls : Taken(call) =>
          LET y == Result(call)
              Delivered(h) ==
                  SelectSeq(y.events, LAMBDA e : e.handler = h)
              AsChange(e) == StatusChange(e.task_id, e.old, e.new)
          IN  \A h \in 1..event_handlers :
                  /\ Len(Delivered(h)) = Len(y.muts)
                  /\ \A i \in 1..Len(y.muts) :
                         Count(y.muts, y.muts[i])
                         = Cardinality({j \in 1..Len(Delivered(h)) :
                               AsChange(Delivered(h)[j]) = y.muts[i]})]_vars

\* C1: the active set never holds more than MAX_CONCURRENT_DOWNLOADS tasks,
\* under any interleaving of concurrent calls.
C1_ActiveWithinCapacity ==
    Cardinality(active_tasks) <= MAX_CONCURRENT_DOWNLOADS

\* C9: once N concurrently issued add_download calls, the only calls made,
\* have all returned, the active count is min(N, 3) and the registry lists N
\* tasks.  (add_download is add_task, which reads neither the url nor the
\* path: the calls are as good as pairwise distinct.)
C9_ConcurrentAdds ==
    (calls = next_id /\ \A p \in Procs : pc[p] = "idle") =>
        /\ Cardinality(active_tasks) = Min(next_id, MAX_CONCURRENT_DOWNLOADS)
        /\ Cardinality({t \in TaskIds : all_tasks[t] # NoTask}) = next_id

\* The status under which the manager in use lists a task (list_tasks).
ListedStatus(t) == IF manager = "TaskQueueManager" THEN all_tasks[t] ELSE aria2[t]

\* No two distinct listed tasks are both non-terminal with the same (url, target path).
NoDuplicate ==
    \A t1, t2 \in TaskIds :
        (/\ t1 # t2
         /\ NonTerminal(ListedStatus(t1))
         /\ NonTerminal(ListedStatus(t2)))
        => task_key[t1] # task_key[t2]

---------------------------------------------------------------------------
(* Rejected calls *)

\* C11: pause_task and resume_task are rejected exactly when the id is not in
\* the registry (TaskNotFound) or the status denies the call (pause_task on a
\* task that is not Waiting or Downloading, resume_task on a task that is not
\* Paused or Failed), and a rejected call leaves the registry, the active set
\* and the waiting queue as they were and emits no event.
C11_RejectedCallChangesNothing ==
    \A call \in ({"pause_task", "resume_task"} \X KnownIds) :
        LET y == Result(call)
            status == all_tasks[call[2]]
            denied == IF call[1] = "pause_task"
                      THEN status \notin {"Waiting", "Downloading"}
                      ELSE status \notin {"Paused", "Failed"}
        IN  /\ (y.ret = "TaskNotFound") = (status = NoTask)
            /\ (y.ret = "Error") = (status # NoTask /\ denied)
            /\ y.ret # "Ok" =>
                  /\ y.all_tasks = all_tasks
                  /\ y.active_tasks = active_tasks
                  /\ y.queued_tasks = queued_tasks
                  /\ y.events = <<>>
                  /\ y.muts = <<>>

\* C11 witness: with a handler registered and a task waiting in the queue,
\* pause_task on a Completed task, resume_task on a Downloading task and
\* pause_task on an unknown id are all rejected.
C11_Witness ==
    /\ event_handlers > 0
    /\ queued_tasks # <<>>
    /\ \E t \in TaskIds : all_tasks[t] = "Completed" /\ pause_task(Self, t).ret = "Error"
    /\ \E t \in TaskIds : all_tasks[t] = "Downloading" /\ resume_task(Self, t).ret = "Error"
    /\ pause_task(Self, UnknownId).ret = "TaskNotFound"

---------------------------------------------------------------------------
(* The duplicate gate *)

\* The policy table: whether the policy reuses an existing task of the status.
TableReuses(policy, status) ==
    CASE policy = "ReuseExisting" -> TRUE
      [] policy = "AllowDuplicate" -> FALSE
      [] policy = "ReuseIfComplete" -> status = "Completed"
      [] policy = "ReuseIfIncomplete" -> status # "Completed"

\* The tasks the manager in use holds under an id of their own.
Registered(t) == IF manager = "TaskQueueManager" THEN all_tasks[t] # NoTask
                 ELSE aria2[t] # NoTask

\* What add_download_with_policy(key, policy) does in the current state when
\* find_duplicate_task returns existing: the result, the id returned, and the
\* tasks registered afterwards.
GateOutcomes(key, policy, existing) ==
    IF manager = "TaskQueueManager"
    THEN LET y == add_download_with_policy(Self, policy, existing, next_id + 1)
         IN  {[ret |-> y.ret, id |-> y.id,
               tasks |-> {t \in TaskIds : y.all_tasks[t] # NoTask}]}
    ELSE {LET z == Persistent_add_download_with_policy(PSelf, policy, existing,
                                                       next_id + 1, status)
          IN  [ret |-> z.ret, id |-> z.id,
               tasks |-> {t \in TaskIds : z.aria2[t] # NoTask}] :
          status \in AdmittedStatus}

\* The status add_download_with_policy reads of the task find_duplicate_task found.
FoundStatus(existing) ==
    IF manager = "TaskQueueManager" THEN all_tasks[existing]
    ELSE IF aria2[existing] # NoTask THEN aria2[existing]
    ELSE repository[existing]

\* The ids find_duplicate_task can return for the key in the current state.
Found(key) ==
    (IF manager = "TaskQueueManager" THEN find_duplicate_task(Self, key)
     ELSE Persistent_find_duplicate_task(PSelf, key)) \ {UnknownId}

\* C12: for ReuseExisting, AllowDuplicate, ReuseIfComplete and
\* ReuseIfIncomplete and every status of the existing task of the same
\* (url, path), add_download_with_policy returns the existing id and creates
\* no task where the policy table says reuse, and creates and returns a new
\* task where it says admit-new.
C12_PolicyTable ==
    \A key \in Keys, policy \in {"ReuseExisting", "AllowDuplicate",
                                "ReuseIfComplete", "ReuseIfIncomplete"} :
        \A existing \in Found(key) :
          \A o \in GateOutcomes(key, policy, existing) :
            IF TableReuses(policy, FoundStatus(existing))
            THEN /\ o.ret = "ExistingTask"
                 /\ o.id = existing
                 /\ o.tasks = {t \in TaskIds : Registered(t)}
            ELSE /\ o.ret = "NewTask"
                 /\ o.id = next_id + 1
                 /\ o.tasks = {t \in TaskIds : Registered(t)} \cup {next_id + 1}

\* C12 witness: a task of a (url, path) was found non-terminal by a call, a
\* second task of the same (url, path) has been admitted, and one of the two
\* is Completed now.
C12_Witness ==
    /\ duplicate_met
    /\ \E t1, t2 \in TaskIds :
          /\ t1 # t2
          /\ Registered(t1) /\ Registered(t2)
          /\ task_key[t1] = task_key[t2]
          /\ FoundStatus(t1) = "Completed"
          /\ FoundStatus(t2) \in {"Waiting", "Downloading", "Paused", "Failed"}

\* C13: with FailIfDuplicate, a call for a (url, path) no task has returns a
\* new task id, and a call for a (url, path) a task has fails with
\* PolicyViolation carrying that task's id and leaves the manager as it was.
C13_FailIfDuplicate ==
    \A key \in Keys :
        IF manager = "TaskQueueManager"
        THEN IF Found(key) = {}
             THEN LET y == add_download_with_policy(Self, "FailIfDuplicate",
                                                    UnknownId, next_id + 1)
                  IN  y.ret = "NewTask" /\ y.id = next_id + 1
                      /\ y.all_tasks[next_id + 1] # NoTask
             ELSE \A existing \in Found(key) :
                      LET y == add_download_with_policy(Self, "FailIfDuplicate",
                                                        existing, next_id + 1)
                      IN  /\ y.ret = "PolicyViolation" /\ y.id = existing
                          /\ y.all_tasks = all_tasks
                          /\ y.active_tasks = active_tasks
                          /\ y.queued_tasks = queued_tasks
        ELSE \A status \in AdmittedStatus :
             IF Found(key) = {}
             THEN LET z == Persistent_add_download_with_policy(
                               PSelf, "FailIfDuplicate", UnknownId, next_id + 1, status)
                  IN  z.ret = "NewTask" /\ z.id = next_id + 1
                      /\ z.aria2[next_id + 1] # NoTask
             ELSE \A existing \in Found(key) :
                      LET z == Persistent_add_download_with_policy(
                                   PSelf, "FailIfDuplicate", existing, next_id + 1, status)
                      IN  /\ z.ret = "PolicyViolation" /\ z.id = existing
                          /\ z.aria2 = aria2
                          /\ z.repository = repository

\* C13 witness: only FailIfDuplicate was used, a call found the task of its
\* (url, path), and that task is still the only one.
C13_Witness ==
    /\ policies = {"FailIfDuplicate"}
    /\ duplicate_met
    /\ Cardinality({t \in TaskIds : Registered(t)}) = 1

\* C14: with PromptUser, a call for a (url, path) a task has returns
\* RequiresDecision and creates no task.
C14_PromptUserNeedsDecision ==
    \A key \in Keys :
        \A existing \in Found(key) :
            \A o \in GateOutcomes(key, "PromptUser", existing) :
                /\ o.ret = "RequiresDecision"
                /\ o.tasks = {t \in TaskIds : Registered(t)}

\* C15: under ReuseExisting or ReuseIfIncomplete, when the task found for the
\* (url, path) is Paused or Failed, the call returns its id and the task is
\* Waiting or Downloading when the call returns, in TaskQueueManager and in
\* PersistentAria2Manager.
C15_ReusedTaskRequeued ==
    \A key \in Keys, policy \in {"ReuseExisting", "ReuseIfIncomplete"} :
        \A existing \in Found(key) :
            FoundStatus(existing) \in {"Paused", "Failed"} =>
                IF manager = "TaskQueueManager"
                THEN LET y == add_download_with_policy(Self, policy, existing, next_id + 1)
                     IN  /\ y.ret = "ExistingTask" /\ y.id = existing
                         /\ y.all_tasks[existing] \in {"Waiting", "Downloading"}
                ELSE \A status \in AdmittedStatus :
                     LET z == Persistent_add_download_with_policy(PSelf, policy, existing,
                                                                  next_id + 1, status)
                     IN  /\ z.ret = "ExistingTask" /\ z.id = existing
                         /\ z.aria2[existing] \in {"Waiting", "Downloading"}

\* TaskQueueManager::add_download
add_download(x, task_id) == [add_task(x, task_id) EXCEPT !.id = task_id]

\* PersistentAria2Manager::add_download: add_download_with_policy under
\* DuplicatePolicy::default(), the id of its result returned
Persistent_add_download(z, existing, task_id, status) ==
    Persistent_add_download_with_policy(z, "ReuseExisting", existing, task_id, status)

\* C16: add_download(url, path) for a (url, path) a task has returns that
\* task's id and leaves the listed tasks as they were, as
\* add_download_with_policy(url, path, ReuseExisting) does, in every manager.
C16_AddDownloadReusesExisting ==
    \A key \in Keys :
        \A existing \in Found(key) :
            IF manager = "TaskQueueManager"
            THEN LET y == add_download(Self, next_id + 1)
                     w == add_download_with_policy(Self, "ReuseExisting", existing,
                                                   next_id + 1)
                 IN  /\ y.id = w.id
                     /\ y.id \in DuplicateMatches(Self, key)
                     /\ \A t \in TaskIds : (y.all_tasks[t] # NoTask) = (all_tasks[t] # NoTask)
            ELSE \A status \in AdmittedStatus :
                 LET z == Persistent_add_download(PSelf, existing, next_id + 1, status)
                 IN  /\ z.id = existing
                     /\ \A t \in TaskIds : (z.aria2[t] # NoTask) = (aria2[t] # NoTask)

\* Whether the two pairs name one logical file: canonical urls equal, and
\* target paths.
SameCanonical(key1, key2) ==
    /\ normalize_url(Url(key1)) = normalize_url(Url(key2))
    /\ TargetPath(key1) = TargetPath(key2)

\* What find_duplicate_task returns for the key in the current state.
FoundOrNone(key) == IF Found(key) = {} THEN {UnknownId} ELSE Found(key)

\* C17: with the default policy, a call for (u2, p) when a task of (u1, p)
\* exists, u1 and u2 of one canonical form (differing in fragment, default
\* port or order of the query parameters), returns that task's id and adds
\* no task.
C17_UrlVariantsCollapse ==
    \A key1, key2 \in Keys :
        (SameCanonical(key1, key2) /\ Found(key1) # {}) =>
            \A existing \in FoundOrNone(key2) :
                \A o \in GateOutcomes(key2, "ReuseExisting", existing) :
                    /\ o.ret = "ExistingTask"
                    /\ Registered(o.id) /\ SameCanonical(task_key[o.id], key1)
                    /\ o.tasks = {t \in TaskIds : Registered(t)}

\* C18: add_download calls for one (url, path) issued concurrently on
\* PersistentAria2Manager all return the same task id, and one task of that
\* (url, path) exists in the adapter and in the store, however the duplicate
\* checks and the creations interleave.
C18_ConcurrentAddsCollapse ==
    LET held == {t \in TaskIds : aria2[t] # NoTask /\ SameUrlAndPath(task_key[t], SharedKey)}
        stored == {t \in TaskIds : repository[t] # NoTask
                                  /\ SameUrlAndPath(task_key[t], SharedKey)}
    IN  (\A p \in Procs : pc[p] = "done") =>
            /\ \A p, q \in Procs : loc[p] = loc[q]
            /\ Cardinality(held) = 1
            /\ Cardinality(stored) = 1

---------------------------------------------------------------------------
(* Recovery *)

\* A startup: the step from a repository without process to a running manager.
StartupStep == ~running /\ running'

\* C19: in a startup, no task stored Completed or Failed is submitted to
\* the adapter, and every task stored non-terminal ends either in the
\* id -> GID map with its adapter submission done, or stored as Failed.
C19_RecoveryOutcome ==
    [][StartupStep =>
          \A t \in TaskIds :
              /\ is_finished(repository[t]) => t \notin resubmitted'
              /\ (repository[t] # NoTask /\ ~is_finished(repository[t])) =>
                     \/ /\ task_mapping'[t] # UnknownId
                        /\ t \in resubmitted'
                        /\ aria2'[task_mapping'[t]] # NoTask
                     \/ repository'[t] = "Failed"]_vars

\* C20: when a startup is over, every task that was stored is visible under
\* its own id: one stored Completed is in list_tasks(), one restored with
\* success is returned by get_task(id) and is in list_tasks().
C20_StoredTasksVisible ==
    [][StartupStep =>
          LET z == [aria2 |-> aria2']
          IN  \A t \in TaskIds :
                  /\ repository[t] = "Completed" => t \in list_tasks(z)
                  /\ (repository[t] # NoTask /\ ~is_finished(repository[t])
                        /\ task_mapping'[t] # UnknownId) =>
                         (get_task(z, t) # NoTask /\ t \in list_tasks(z))]_vars

---------------------------------------------------------------------------
(* Failures of the repository and of the adapter *)

\* C21: when pause_download or resume_download changes the task's status in
\* the adapter and the repository's save_task fails, the call returns an
\* error.
C21_SaveFailureReported ==
    \A task_id \in KnownIds :
        /\ LET z == pause_download(PSelfWhen(FALSE), task_id)
           IN  z.aria2 # aria2 => z.ret = "Err"
        /\ \A status \in AdmittedStatus :
               LET z == resume_download(PSelfWhen(FALSE), task_id, status)
               IN  z.aria2 # aria2 => z.ret = "Err"

\* C22: when a call of add_download_with_policy fails because the
\* repository's save_task fails after the adapter accepted the transfer, the
\* adapter holds no transfer of the call and list_tasks() shows no new task.
C22_FailedAddRolledBack ==
    \A key \in Keys, policy \in DuplicatePolicy, status \in AdmittedStatus :
        \A existing \in FoundOrNone(key) :
            LET z == Persistent_add_download_with_policy(PSelfWhen(FALSE), policy, existing,
                                                         next_id + 1, status)
            IN  (manager = "PersistentAria2Manager" /\ z.ret = "Err") =>
                    /\ z.aria2[next_id + 1] = NoTask
                    /\ list_tasks(z) = list_tasks(PSelf)

\* The task is in the id -> GID map, the adapter holds its transfer, and the
\* stored status of the task id is not the adapter's.
StoreBehind(t) ==
    /\ running
    /\ task_mapping[t] # UnknownId
    /\ aria2[task_mapping[t]] # NoTask
    /\ repository[t] # aria2[task_mapping[t]]

\* C23: with the ticker running, a status of a created or restored task that
\* the store record of its id does not show is written to that record (unless
\* the task is cancelled or the process ends first).
C23_StoreCatchesUp ==
    \A t \in TaskIds : StoreBehind(t) ~> ~StoreBehind(t)

\* C24: cancel_download(id) returns Ok and removes the task whatever the
\* adapter answers: the id -> GID entry is gone and, the repository accepting
\* the delete, so is the store record.
C24_CancelAlwaysRemoves ==
    \A task_id \in KnownIds :
        LET z == cancel_download(PSelf, task_id, TRUE)
        IN  /\ z.ret = "Ok"
            /\ z.repository[task_id] = NoTask
            /\ z.task_mapping[task_id] = UnknownId

---------------------------------------------------------------------------
(* Order of the events *)

\* The statuses a sequence of status changes gives one task, in order.
RECURSIVE StatusesOf(_, _)
StatusesOf(changes, task_id) ==
    IF changes = <<>> THEN <<>>
    ELSE IF Head(changes).task_id = task_id
         THEN <<Head(changes).new>> \o StatusesOf(Tail(changes), task_id)
         ELSE StatusesOf(Tail(changes), task_id)

Quiescent == \A p \in Procs : pc[p] = "idle"

\* C25: once the concurrent pause_task and resume_task calls have returned,
\* the handler has received the StatusChanged events of each id in the order
\* in which the status changes were made in the registry.
C25_EventsInMutationOrder ==
    Quiescent =>
        \A task_id \in TaskIds :
            StatusesOf(emitted, task_id) = StatusesOf(applied, task_id)

---------------------------------------------------------------------------
(* Shutdown *)

\* shutdown() has been called and has not returned.
InShutdown == caller \in {"await_handle", "list_tasks", "save_task"}

\* save_all_tasks has been called and has not returned.
InFlush == caller \in {"list_tasks", "save_task"}

\* C26: shutdown(), once called, returns, whether or not the adapter and the
\* repository answer the calls of the poller's iteration and of the flush.
C26_ShutdownReturns == InShutdown ~> (caller = "done")

\* C27: the flush of shutdown() runs only with the poller stopped; the
\* poller stops at a select! only, the iteration it was in done, and a
\* stopped poller stays stopped, so that it writes nothing once the flush
\* has started.
C27_ShutdownOrder ==
    /\ [](InFlush => poller = "stopped")
    /\ [][/\ poller = "stopped" => poller' = "stopped"
          /\ (poller # "stopped" /\ poller' = "stopped") =>
                 (poller = "select" /\ ids = <<>>)]_vars

\* shutdown() was called with the poller in the middle of an iteration, and
\* the flush is writing.
C27_FlushAfterIteration ==
    mid_iteration /\ caller = "save_task" /\ poller = "stopped"

---------------------------------------------------------------------------
(* Returned ids *)

\* C28: the id that add_download or add_download_with_policy of
\* PersistentAria2Manager returns, for a new task or for an existing one, is
\* an id get_task succeeds on when the call has returned.
C28_ReturnedIdLive ==
    (manager = "PersistentAria2Manager" /\ running) =>
        \A key \in Keys, policy \in DuplicatePolicy, status \in AdmittedStatus :
            \A existing \in Persistent_find_duplicate_task(PSelf, key) :
                LET z == Persistent_add_download_with_policy(PSelf, policy, existing,
                                                             next_id + 1, status)
                    y == Persistent_add_download(PSelf, existing, next_id + 1, status)
                IN  /\ z.ret \in {"NewTask", "ExistingTask"} => get_task(z, z.id) # NoTask
                    /\ y.ret \in {"NewTask", "ExistingTask"} => get_task(y, y.id) # NoTask

---------------------------------------------------------------------------
(* Paused tasks over a restart *)

\* The stored tasks a startup has restored: restore_single_task returned Ok
\* and the id -> GID entry was stored.
Restored(t) == repository[t] # NoTask /\ task_mapping'[t] # UnknownId

\* C29: in a startup, a task stored Paused that is restored is Paused in the
\* adapter, and a restored task stored Waiting or Downloading is in the
\* adapter as the adapter admitted it, not Paused.
C29_PausedStaysPaused ==
    [][StartupStep =>
          \A t \in TaskIds :
              Restored(t) =>
                  /\ repository[t] = "Paused" => aria2'[task_mapping'[t]] = "Paused"
                  /\ repository[t] \in {"Waiting", "Downloading"} =>
                         aria2'[task_mapping'[t]] \in AdmittedStatus]_vars

\* A task stored Paused has been restored under a new id and is Paused in
\* the adapter.
C29_RestoredPaused ==
    /\ running
    /\ \E t \in resubmitted :
          /\ repository[t] = "Paused"
          /\ task_mapping[t] \notin {UnknownId, t}
          /\ aria2[task_mapping[t]] = "Paused"
          /\ aria2[t] = NoTask

---------------------------------------------------------------------------
(* Completed tasks *)

\* C30: a task that is Completed in the registry of TaskQueueManager stays
\* Completed in every call (pause_task, resume_task, complete_task, fail_task
\* and the promotions they make); it leaves the registry in a cancel_task of
\* its id only.
C30_CompletedIsFinal ==
    [][\A t \in TaskIds :
          all_tasks[t] = "Completed" =>
              \/ all_tasks'[t] = "Completed"
              \/ all_tasks'[t] = NoTask /\ CancelTask(t)]_vars

---------------------------------------------------------------------------
(* The active count *)

\* TaskQueueManager::active_download_count
active_download_count == Cardinality(active_tasks)

\* The tasks list_tasks() returns with status Downloading.
ListedDownloading == {t \in TaskIds : all_tasks[t] = "Downloading"}

\* C31: with no call in progress, the number of tasks that list_tasks()
\* returns as Downloading is active_download_count().
C31_DownloadingMatchesActiveCount ==
    (\A p \in Procs : pc[p] = "idle") =>
        Cardinality(ListedDownloading) = active_download_count

---------------------------------------------------------------------------
(* Canonical urls *)

\* C32: normalize_url applied to what normalize_url returned returns it
\* unchanged.
C32_NormalizeIdempotent ==
    Len(normalized) >= 2 => normalized[2] = normalized[1]

---------------------------------------------------------------------------
(* Progress *)

\* C33: the downloaded_bytes that get_progress(id) returns is never less
\* than what the get_progress(id) before it returned.
C33_DownloadedBytesMonotonic ==
    [][\A t \in TaskIds :
          (observed[t] # {} /\ observed'[t] # {}) =>
              The(observed'[t]) >= The(observed[t])]_vars

---------------------------------------------------------------------------
(* Paused tasks and the waiting queue *)

\* C34: a task that is Paused becomes Downloading in a resume_task of its
\* id only.
C34_PausedStartsOnResumeOnly ==
    [][\A t \in TaskIds :
          (all_tasks[t] = "Paused" /\ all_tasks'[t] = "Downloading") => ResumeTask(t)]_vars

\* How many times task_id is in a queue.
Occurrences(queue, task_id) ==
    Cardinality({i \in 1..Len(queue) : queue[i] = task_id})

\* C35: no task id is in the waiting queue more than once.
C35_QueuedOnce ==
    \A t \in TaskIds : Occurrences(queued_tasks, t) <= 1

---------------------------------------------------------------------------
(* Cancelled tasks *)

\* The tasks cancel_task has removed: handed out by add_task and, with no
\* call in progress, not in the registry.
Cancelled == {t \in 1..next_id : all_tasks[t] = NoTask}

\* C36: with every call returned, a task that cancel_task removed from the
\* registry is neither in the active set nor in the waiting queue, whatever
\* promotion or resume_task was in progress during the cancel.
C36_CancelledStaysOut ==
    Quiescent =>
        \A t \in Cancelled : t \notin active_tasks \cup Range(queued_tasks)

---------------------------------------------------------------------------
(* Cancel and the persistence poller *)

\* C37: the store holds no record for an id cancel_download has returned Ok
\* for, whatever iteration of the poller was under way during the cancel.
C37_CancelledNotStored ==
    \A t \in cancel_returned : repository[t] = NoTask

---------------------------------------------------------------------------
(* Restart cycles *)

\* The stored tasks of a (url, path).
RecordsFor(store, key) == {t \in TaskIds : store[t] # NoTask /\ task_key[t] = key}

\* C38: when shutdown() flushes, a stored task that the last startup handed
\* to the adapter and that is the one record of its (url, path) is still the
\* one record of that (url, path) after the flush.
C38_OneRecordAfterRestart ==
    [][Shutdown =>
          \A t \in resubmitted :
              RecordsFor(repository, task_key[t]) = {t}
                  => RecordsFor(repository', task_key[t]) = {t}]_vars

---------------------------------------------------------------------------
(* The locks *)

\* A caller is in a call of the manager.
InCall(p) == awaiting[p] # <<>>

\* C39: every call of TaskQueueManager returns, whatever the other callers
\* do and also when a handler calls back into the manager: no caller stays
\* in a call for ever (each is out of a call again and again).
C39_EveryCallReturns == \A p \in Procs : []<>~InCall(p)

\* resume_task waits for active_tasks with the registry's write guard held,
\* behind a caller that holds active_tasks in an operation a handler called.
C39_NestedWait ==
    \E p, q \in Procs :
        /\ <<"all_tasks", "W">> \in guards[p] /\ Queued(p, "active_tasks")
        /\ AnyHolder("active_tasks") = {q}
        /\ \E i \in 1..Len(awaiting[q]) : awaiting[q][i] = <<"leaf">>

====
